---- MODULE Spec2Model ----
(***************************************************************************)
(* A model of cursor.py: the window-title monitor (OsuWindowMonitor), the  *)
(* hit-window test (RelaxBot.should_click) and the playback scheduler      *)
(* (RelaxBot.start / toggle_pause / stop / bot_loop with its key helpers   *)
(* and the delayed-release Timer threads).                                 *)
(*                                                                         *)
(* Times are integer milliseconds.  Window titles are sequences of         *)
(* one-character strings so that Python's substring tests can be computed. *)
(***************************************************************************)
EXTENDS Integers, Sequences, FiniteSets, TLC

VARIABLES
    \* ---- OsuWindowMonitor ------------------------------------------------
    mon_running,      \* OsuWindowMonitor.running
    last_title,       \* OsuWindowMonitor.last_title
    last_state,       \* OsuWindowMonitor.last_state
    stable_counter,   \* OsuWindowMonitor.stable_counter
    callbacks,        \* number of times self.callback(...) has been invoked
    cb_name,          \* argument of the last callback invocation
    polls,            \* number of loop iterations executed so far
    play_run,         \* history: consecutive polls whose title classified "playing"
    fired_run,        \* history: callback invocations during the current play_run
    mon_pc,           \* the _monitor_loop thread: "none", "poll", "backoff", "ended"
    last_poll,        \* history: how the last loop iteration went
    \* ---- should_click applied to drawn inputs -----------------------------
    sc_time,          \* obj.time
    sc_now,           \* current_time
    sc_applied,       \* has should_click been evaluated
    sc_res,           \* the accuracy modes under which should_click returned True
    \* ---- _analyze_window_title applied to drawn titles -----------------------
    t_parts,          \* the title as [prefix, marker, body, suffix]
    t_class,          \* what _analyze_window_title returned, "none" before the call
    \* ---- OsuBeatmapParser -------------------------------------------------
    content,          \* the .osu file: [timing, hits, sm] (sections as lines of fields)
    timing_points,    \* OsuBeatmapParser.timing_points
    parsed_objects,   \* OsuBeatmapParser.hit_objects
    parse_pc,         \* how far parse() has got
    \* ---- update_cursor_physics applied to drawn positions --------------------
    ph_pos,           \* current_position[0], in thousandths of a pixel
    ph_vel,           \* velocity[0], in thousandths of a pixel per tick
    ph_target,        \* target_position[0], in thousandths of a pixel
    ph_n,             \* number of update_cursor_physics calls made, 0 - 1 when parked
    ph_arrived,       \* history: a call has left the pointer within the threshold
    ph_last,          \* history: the last tick, [spin, fac]: was it a spinner's
                      \* tick, and the product (ten-thousandths) of the factors it multiplied
                      \* the velocity by
    \* ---- calculate_target_position applied to drawn inputs -------------------
    tg_obj,           \* the hit object: [x, y, time]
    tg_now,           \* current_time
    tg_off,           \* what calculate_dance_offset returns for these: <<dx, dy>>
    tg_res,           \* what calculate_target_position returned, <<>> before the call
    \* ---- RelaxBot ---------------------------------------------------------
    hit_objects,      \* RelaxBot.hit_objects (the parsed, time-ordered chart)
    accuracy_mode,    \* RelaxBot.accuracy_mode
    running,          \* RelaxBot.running
    paused,           \* RelaxBot.paused
    clicked_objects,  \* RelaxBot.clicked_objects (set of obj.time)
    current_vk,       \* RelaxBot.current_vk / current_key ("z" or "x")
    key_pressed,      \* RelaxBot.key_pressed
    active_slider,    \* RelaxBot.active_slider: 0 for None, else index in hit_objects
    start_time,       \* RelaxBot.start_time
    offset_ms,        \* RelaxBot.offset_ms
    velocity,         \* RelaxBot.velocity: 0 for [0.0, 0.0], 1 once the pointer is driven
    target_position,  \* RelaxBot.target_position: [kind, obj], what the pointer is sent to
    now,              \* wall clock, time.time() * 1000
    down,             \* the input sink: virtual keys the target currently sees down
    timers,           \* threading.Timer(0.05, release_key) threads not yet finished
    loops,            \* the bot_loop threads, one per start()
    ctl,              \* the control-surface context: what it is executing
    starts,           \* number of successful start() calls (run number)
    waiting_mode,     \* RelaxBot.waiting_mode
    detect_pc,        \* the on_beatmap_detected call: "none", "sleep", "call_start", "returned"
    \* ---- history of the playback run ----------------------------------------
    npress,           \* per object: key-down events it emitted in this run
    nrel,             \* per object: key-up events it emitted in this run
    passed,           \* per object: has a tick with current_time >= end_time completed
    stop_obs,         \* what the last stop() call saw: [pre, rels, ret, kp, det]
    disturbed         \* a pause or stop call has begun since the last tick began

monVars   == <<mon_running, last_title, last_state, stable_counter, callbacks,
               cb_name, polls, play_run, fired_run, mon_pc, last_poll>>
clickVars == <<sc_time, sc_now, sc_applied, sc_res>>
titleVars == <<t_parts, t_class>>
parseVars == <<content, timing_points, parsed_objects, parse_pc>>
physVars  == <<ph_pos, ph_vel, ph_target, ph_n, ph_arrived, ph_last>>
targetVars == <<tg_obj, tg_now, tg_off, tg_res>>
fnVars    == <<clickVars, titleVars, parseVars, physVars, targetVars>>
armVars   == <<waiting_mode, detect_pc>>
botVars   == <<armVars, hit_objects, offset_ms, velocity, target_position, accuracy_mode, running, paused, clicked_objects,
               current_vk, key_pressed, active_slider, start_time, now, down,
               timers, loops, ctl, starts>>
histVars  == <<npress, nrel, passed, stop_obs, disturbed>>
vars      == <<monVars, fnVars, botVars, histVars>>

----------------------------------------------------------------------------
(* Bounds of the model.                                                    *)

MaxPolls  == 5      \* monitor loop iterations explored
MaxDiff   == 120    \* should_click is applied to |obj.time - current_time| <= MaxDiff
MaxTime   == 250    \* the wall clock stops advancing here
ClockStep == 10     \* the wall clock advances in steps of ClockStep ms
MaxLoops  == 2      \* bot_loop threads (one per start())
MaxObjs   == 2      \* the charts have at most MaxObjs hit objects

----------------------------------------------------------------------------
(* Timing constants (cursor.py lines 46-49).                               *)

HIT_WINDOW_50  == 150
HIT_WINDOW_100 == 100
HIT_WINDOW_300 == 50
PERFECT_WINDOW == 30

Abs(n) == IF n < 0 THEN -n ELSE n

AccuracyModes == {"perfect", "high", "medium"}

\* RelaxBot.should_click with self.accuracy_mode = mode
should_click_perfect_wide(mode, objTime, current_time) ==
    LET time_diff == objTime - current_time IN
    IF mode = "perfect" THEN -HIT_WINDOW_100 <= time_diff /\ time_diff <= HIT_WINDOW_100
    ELSE IF mode = "high" THEN -HIT_WINDOW_300 <= time_diff /\ time_diff <= HIT_WINDOW_300
    ELSE -HIT_WINDOW_100 <= time_diff /\ time_diff <= HIT_WINDOW_100

should_click_high_wide(mode, objTime, current_time) ==
    LET time_diff == objTime - current_time IN
    IF mode = "perfect" THEN -PERFECT_WINDOW <= time_diff /\ time_diff <= PERFECT_WINDOW
    ELSE IF mode = "high" THEN -HIT_WINDOW_50 <= time_diff /\ time_diff <= HIT_WINDOW_50
    ELSE -HIT_WINDOW_100 <= time_diff /\ time_diff <= HIT_WINDOW_100

should_click(mode, objTime, current_time) ==
    LET time_diff == objTime - current_time IN
    IF mode = "perfect" THEN -PERFECT_WINDOW <= time_diff /\ time_diff <= PERFECT_WINDOW
    ELSE IF mode = "high" THEN -HIT_WINDOW_300 <= time_diff /\ time_diff <= HIT_WINDOW_300
    ELSE -HIT_WINDOW_100 <= time_diff /\ time_diff <= HIT_WINDOW_100

----------------------------------------------------------------------------
(* Window titles.                                                          *)

T_bare   == <<"o","s","u","!">>
T_select == <<"o","s","u","!"," ","-"," ","s","o","n","g"," ","s","e","l","e","c","t">>
T_play   == <<"o","s","u","!"," ","-"," ","A"," ","-"," ","T"," ","[","H","a","r","d","]">>
T_play2  == <<"o","s","u","!"," ","-"," ","B"," ","-"," ","U"," ","[","E","a","s","y","]">>
T_edit   == <<"o","s","u","!"," ","-"," ","e","d","i","t"," ","-"," ","A"," ","-"," ","T"," ","[","H","a","r","d","]">>
T_menu   == <<"o","s","u","!","l","a","z","e","r">>

\* the titles the window inspector may report for the osu! window
Titles == {T_bare, T_select, T_play, T_play2, T_edit, T_menu}

LowerCharNone(c) == c

\* str.lower() on the characters the titles use
LowerChar(c) ==
    CASE c = "A" -> "a" [] c = "B" -> "b" [] c = "C" -> "c" [] c = "D" -> "d"
      [] c = "E" -> "e" [] c = "G" -> "g" [] c = "H" -> "h" [] c = "I" -> "i"
      [] c = "L" -> "l" [] c = "M" -> "m" [] c = "N" -> "n" [] c = "O" -> "o"
      [] c = "S" -> "s" [] c = "T" -> "t" [] c = "U" -> "u" [] OTHER -> c

Lower(s) == [k \in 1..Len(s) |-> LowerChar(s[k])]

\* Python's `sub in s`
Contains(sub, s) ==
    \E k \in 1..(Len(s) - Len(sub) + 1) : SubSeq(s, k, k + Len(sub) - 1) = sub

\* Python's s.startswith(pre)
StartsWith(s, pre) == Len(s) >= Len(pre) /\ SubSeq(s, 1, Len(pre)) = pre

RECURSIVE LStrip(_)
LStrip(s) == IF s # <<>> /\ Head(s) = " " THEN LStrip(Tail(s)) ELSE s

RECURSIVE RStrip(_)
RStrip(s) == IF s # <<>> /\ s[Len(s)] = " " THEN RStrip(SubSeq(s, 1, Len(s) - 1)) ELSE s

\* Python's s.strip()
Strip(s) == RStrip(LStrip(s))

\* OsuWindowMonitor._analyze_window_title
analyze_window_title(title) ==
    LET title_lower == Lower(title) IN
    IF Contains(<<"e","d","i","t">>, title_lower) THEN "editing"
    ELSE IF Contains(<<"s","o","n","g"," ","s","e","l","e","c","t">>, title_lower)
            \/ title = <<"o","s","u","!">> THEN "selecting"
    ELSE IF Contains(<<"[">>, title) /\ Contains(<<"]">>, title)
            /\ ~Contains(<<"m","e","n","u">>, title_lower)
            /\ ~Contains(<<"e","d","i","t">>, title_lower)
            /\ ~Contains(<<"s","e","l","e","c","t">>, title_lower) THEN "playing"
    ELSE "menu"

\* OsuWindowMonitor._extract_beatmap_info
extract_beatmap_info(title) ==
    IF StartsWith(title, <<"o","s","u","!"," ","-"," ">>)
    THEN LET beatmap_name == SubSeq(title, 8, Len(title)) IN
         IF StartsWith(beatmap_name, <<"e","d","i","t"," ","-"," ">>)
         THEN Strip(SubSeq(beatmap_name, 8, Len(beatmap_name)))
         ELSE Strip(beatmap_name)
    ELSE title

----------------------------------------------------------------------------
(* _analyze_window_title on drawn titles.  A title is put together from a  *)
(* prefix, a marker, a body and a suffix.                                  *)

P_none == <<>>
P_osu  == <<"o","s","u","!">>
P_dash == <<"o","s","u","!"," ","-"," ">>

M_none      == <<>>
M_edit      == <<"e","d","i","t"," ","-"," ">>
M_EDIT      == <<"E","D","I","T"," ","-"," ">>
M_select    == <<"s","o","n","g"," ","s","e","l","e","c","t">>
M_Select    == <<"S","o","n","g"," ","S","e","l","e","c","t">>
M_menu      == <<"m","a","i","n"," ","m","e","n","u"," ","-"," ">>
M_selection == <<"S","e","l","e","c","t","i","o","n"," ","-"," ">>

B_none    == <<>>
B_song    == <<"A"," ","-"," ","T">>
B_credits == <<"C","r","e","d","i","t","s"," ","-"," ","T">>

S_none    == <<>>
S_diff    == <<" ","[","H","a","r","d","]">>
S_inner   == <<" ","[","H","a","r","d","]"," ","(","x",")">>

TitlePrefixes == {P_none, P_osu, P_dash}
TitleMarkers  == {M_none, M_edit, M_EDIT, M_select, M_Select, M_menu, M_selection}
TitleBodies   == {B_none, B_song, B_credits}
TitleSuffixes == {S_none, S_diff, S_inner}

TitleParts ==
    [prefix : TitlePrefixes, marker : TitleMarkers, body : TitleBodies,
     suffix : TitleSuffixes]

\* the window title text
TitleOf(parts) == parts.prefix \o parts.marker \o parts.body \o parts.suffix

TitleParked ==
    /\ t_parts = [prefix |-> P_none, marker |-> M_none, body |-> B_none,
                  suffix |-> S_none]
    /\ t_class = "none"

TitleInit ==
    /\ t_parts \in TitleParts
    /\ t_class = "none"

\* self._analyze_window_title(title)
Classify ==
    /\ t_class = "none"
    /\ t_class' = analyze_window_title(TitleOf(t_parts))
    /\ UNCHANGED t_parts
    /\ UNCHANGED <<monVars, clickVars, parseVars, physVars, targetVars, botVars, histVars>>

----------------------------------------------------------------------------
(* OsuWindowMonitor.                                                       *)

required_stable_frames_one == 3 - 2

\* OsuWindowMonitor.required_stable_frames
required_stable_frames == 3

MonInit ==
    /\ mon_running = FALSE
    /\ last_title = <<>>
    /\ last_state = "menu"
    /\ stable_counter = 0
    /\ callbacks = 0
    /\ cb_name = <<>>
    /\ polls = 0
    /\ play_run = 0
    /\ fired_run = 0
    /\ mon_pc = "none"
    /\ last_poll = "none"

\* OsuWindowMonitor.start (has_win32 holds): the _monitor_loop thread is started
\* (RelaxBot makes a new monitor for every start, line 1053; here the monitor
\* is started again once its previous thread has left the loop)
MonStart ==
    /\ ~mon_running
    /\ mon_pc \in {"none", "ended"}
    /\ mon_running' = TRUE
    /\ mon_pc' = "poll"
    /\ UNCHANGED <<last_title, last_state, stable_counter, callbacks, cb_name,
                   polls, play_run, fired_run, last_poll>>
    /\ UNCHANGED <<fnVars, botVars, histVars>>

\* OsuWindowMonitor.stop
MonStop ==
    /\ mon_running
    /\ mon_running' = FALSE
    /\ UNCHANGED <<last_title, last_state, stable_counter, callbacks, cb_name,
                   polls, play_run, fired_run, mon_pc, last_poll>>
    /\ UNCHANGED <<fnVars, botVars, histVars>>

\* line 373: while self.running, found False
MonExit ==
    /\ mon_pc = "poll"
    /\ ~mon_running
    /\ mon_pc' = "ended"
    /\ UNCHANGED <<mon_running, last_title, last_state, stable_counter, callbacks,
                   cb_name, polls, play_run, fired_run, last_poll>>
    /\ UNCHANGED <<fnVars, botVars, histVars>>

counter_after_other_keep(new_state, counter) == counter

\* lines 402-405: any other change of title resets the counter unless the new
\* title classifies as playing
counter_after_other(new_state, counter) ==
    IF new_state # "playing" THEN 0 ELSE counter

\* a monitor that counts every poll whose title classifies as playing
counter_same_title_counts(new_state, counter) ==
    IF new_state = "playing" THEN counter + 1 ELSE counter

\* line 382: the body of `if title != self.last_title` is skipped, the counter
\* is left as it is
counter_same_title(new_state, counter) == counter

\* one iteration of _monitor_loop in which _find_osu_window returns a window
\* whose title is `title`
Poll(title) ==
    LET new_state == analyze_window_title(title)
        entering  == new_state = "playing" /\ last_state # "playing"
        counted   == IF entering THEN stable_counter + 1 ELSE stable_counter
        fires     == entering /\ counted >= required_stable_frames
        run       == IF new_state = "playing" THEN play_run + 1 ELSE 0
    IN
    /\ mon_running
    /\ mon_pc = "poll"
    /\ polls < MaxPolls
    /\ polls' = polls + 1
    /\ play_run' = run
    /\ UNCHANGED <<mon_running, mon_pc, fnVars, botVars, histVars>>
    /\ IF title # last_title
       THEN /\ stable_counter' = IF entering
                                 THEN (IF fires THEN 0 ELSE counted)
                                 ELSE counter_after_other(new_state, stable_counter)
            /\ callbacks' = IF fires THEN callbacks + 1 ELSE callbacks
            /\ cb_name' = IF fires THEN extract_beatmap_info(title) ELSE cb_name
            /\ fired_run' = (IF run <= 1 THEN 0 ELSE fired_run) + (IF fires THEN 1 ELSE 0)
            /\ last_state' = new_state
            /\ last_title' = title
            /\ last_poll' = IF fires THEN "fired"
                            ELSE IF new_state = "playing" THEN "playing" ELSE "nonplaying"
       ELSE /\ fired_run' = IF run <= 1 THEN 0 ELSE fired_run
            /\ last_poll' = IF new_state = "playing" THEN "same_playing" ELSE "nonplaying"
            /\ stable_counter' = counter_same_title(new_state, stable_counter)
            /\ UNCHANGED <<callbacks, cb_name, last_state, last_title>>

\* one iteration of _monitor_loop in which _find_osu_window returns None
PollNoWindow ==
    /\ mon_running
    /\ mon_pc = "poll"
    /\ polls < MaxPolls
    /\ polls' = polls + 1
    /\ play_run' = 0
    /\ fired_run' = 0
    /\ last_poll' = "nowindow"
    /\ UNCHANGED <<mon_running, last_title, last_state, stable_counter, callbacks,
                   cb_name, mon_pc>>
    /\ UNCHANGED <<fnVars, botVars, histVars>>

after_exception_fatal == "ended"

\* lines 411-413: except Exception: the error is printed, time.sleep(1.0), and
\* the while loop goes on
after_exception == "backoff"

\* one iteration of _monitor_loop in which the window inspector raises
\* (EnumWindows in _find_osu_window, or GetWindowText at line 380)
PollError ==
    /\ mon_running
    /\ mon_pc = "poll"
    /\ polls < MaxPolls
    /\ polls' = polls + 1
    /\ play_run' = 0
    /\ fired_run' = 0
    /\ last_poll' = "error"
    /\ mon_pc' = after_exception
    /\ UNCHANGED <<mon_running, last_title, last_state, stable_counter, callbacks,
                   cb_name>>
    /\ UNCHANGED <<fnVars, botVars, histVars>>

\* line 413: time.sleep(1.0) returns
MonBackoffEnd ==
    /\ mon_pc = "backoff"
    /\ mon_pc' = "poll"
    /\ UNCHANGED <<mon_running, last_title, last_state, stable_counter, callbacks,
                   cb_name, polls, play_run, fired_run, last_poll>>
    /\ UNCHANGED <<fnVars, botVars, histVars>>

MonNext ==
    \/ MonStart
    \/ MonStop
    \/ MonExit
    \/ \E title \in Titles : Poll(title)
    \/ PollNoWindow
    \/ PollError
    \/ MonBackoffEnd

----------------------------------------------------------------------------
(* should_click on drawn inputs.                                           *)

ClickTimes == {0, 1000}

ClickParked ==
    /\ sc_time = 0
    /\ sc_now = 0
    /\ sc_applied = FALSE
    /\ sc_res = {}

ClickInit ==
    /\ sc_time \in ClickTimes
    /\ sc_now \in (sc_time - MaxDiff)..(sc_time + MaxDiff)
    /\ sc_applied = FALSE
    /\ sc_res = {}

\* evaluate should_click(obj, current_time) under each accuracy mode
ApplyShouldClick ==
    /\ ~sc_applied
    /\ sc_applied' = TRUE
    /\ sc_res' = {m \in AccuracyModes : should_click(m, sc_time, sc_now)}
    /\ UNCHANGED <<sc_time, sc_now>>
    /\ UNCHANGED <<monVars, titleVars, parseVars, physVars, targetVars, botVars, histVars>>

----------------------------------------------------------------------------
(* OsuBeatmapParser.  A section of the file is a sequence of lines and a   *)
(* line is the sequence of its comma-separated fields.  A field is an      *)
(* integer (a numeric token), TokCurve (a well-formed slider curve such as *)
(* "L|200:100") or TokBad (text that int() and float() reject).  Durations *)
(* are exact fractions dur_n / dur_d of a millisecond, dur_d > 0.          *)

MaxHitLines == 2    \* lines of the [HitObjects] section

TokBad   == 0 - 1000001
TokCurve == 0 - 1000002

IsNum(tok) == tok \notin {TokBad, TokCurve}

\* a test that takes every obj_type not below b to have the bit b
BitLoose(n, b) == n \div b >= 1

\* obj_type & b, for b a power of two
Bit(n, b) == (n \div b) % 2 = 1

TimingLine(t, bl, u) == <<t, bl, 4, 1, 0, 50, u, 0>>

\* [TimingPoints] sections
TimingSections ==
    { <<>>,
      <<TimingLine(0, 500, 1)>>,
      <<TimingLine(2000, 500, 1)>>,
      <<TimingLine(0, 500, 1), TimingLine(1000, 400, 1)>>,
      <<TimingLine(1000, 400, 1), TimingLine(0, 500, 1)>>,
      <<TimingLine(0, 500, 1), TimingLine(200, 0 - 50, 0)>>,
      <<TimingLine(0, 500, 1), <<400, 0>>>>,
      <<<<0, 300>>, <<TokBad, 500>>, <<700>>>> }

\* lines of the [HitObjects] section: x, y, time, type, hitSound, ...
HitLines ==
    { <<256, 192, 1000, 1, 0>>,
      <<64, 64, 1000, 5, 4>>,
      <<100, 100, 500, 2, 0, TokCurve, 1, 140>>,
      <<100, 100, 1000, 6, 0, TokCurve, 2, 70>>,
      <<100, 100, 1000, 2, 0, TokCurve>>,
      <<100, 100, 1500, 2, 0>>,
      <<256, 192, 1000, 12, 0, 3000>>,
      <<256, 192, 1500, 8, 0, 500>>,
      <<256, 192, 500, 8, 0>>,
      <<256, 192, TokBad, 1, 0>>,
      <<256, 192, 1200, 8, 0, TokBad>>,
      <<256, 192, 800, 128, 0>> }

\* Difficulty section: SliderMultiplier in tenths, 0 when the key is absent
SliderMultipliers == {0, 20}

SeqsUpTo(S, n) == UNION { [1..k -> S] : k \in 0..n }

Contents ==
    [timing : TimingSections, hits : SeqsUpTo(HitLines, MaxHitLines),
     sm : SliderMultipliers]

\* _parse_timing_points, one line: the TimingPoints it appends (none or one)
parse_timing_line(parts) ==
    IF Len(parts) < 2 THEN <<>>
    ELSE IF \E i \in 1..Len(parts) : i <= 8 /\ ~IsNum(parts[i]) THEN <<>>
    ELSE <<[time |-> parts[1], beat_length |-> parts[2],
            uninherited |-> IF Len(parts) > 6 THEN parts[7] = 1 ELSE TRUE]>>

RECURSIVE parse_timing_points(_, _)
parse_timing_points(section, k) ==
    IF k > Len(section) THEN <<>>
    ELSE parse_timing_line(section[k]) \o parse_timing_points(section, k + 1)

\* the loop of lines 255-258: the last point of the list, in list order,
\* that is uninherited and not later than time (0 for None)
RECURSIVE active_timing(_, _, _)
active_timing(tps, time, k) ==
    IF k = 0 THEN 0
    ELSE IF tps[k].time <= time /\ tps[k].uninherited THEN k
    ELSE active_timing(tps, time, k - 1)

slider_multiplier_one(sm) == IF sm = 0 THEN 10 ELSE sm

\* float(self.difficulty.get('SliderMultiplier', 1.4)), in tenths
slider_multiplier(sm) == IF sm = 0 THEN 14 ELSE sm

\* the slider branch (lines 239-271) of one line, given its time
parse_slider(parts, n, time, tps, sm) ==
    IF Len(parts) <= 5 THEN <<>>
    ELSE IF parts[6] = TokBad THEN <<>>
    ELSE IF Len(parts) > 6 /\ ~IsNum(parts[7]) THEN <<>>
    ELSE IF Len(parts) > 7 /\ ~IsNum(parts[8]) THEN <<>>
    ELSE LET repeat       == IF Len(parts) > 6 THEN parts[7] ELSE 1
             pixel_length == IF Len(parts) > 7 THEN parts[8] ELSE 0
             a            == active_timing(tps, time, Len(tps))
             tempo        == a # 0 /\ tps[a].beat_length > 0
         IN <<[type |-> 2, time |-> time, line |-> n,
               via   |-> IF tempo THEN "tempo" ELSE "fallback",
               tp    |-> a,
               repeat |-> repeat, pixel_length |-> pixel_length,
               dur_n |-> IF tempo
                         THEN pixel_length * 10 * tps[a].beat_length * repeat
                         ELSE pixel_length * 600,
               dur_d |-> IF tempo THEN 100 * slider_multiplier(sm) ELSE 100]>>

\* a variant of the line parser in which a time that float() rejects is read
\* as 0.0 and the line is kept
parse_hit_line_lenient(parts, n, tps, sm) ==
    IF Len(parts) < 4 THEN <<>>
    ELSE IF ~IsNum(parts[4]) THEN <<>>
    ELSE LET time == IF IsNum(parts[3]) THEN parts[3] ELSE 0
             Plain(ty, d) == [type |-> ty, time |-> time, line |-> n,
                              via |-> "none", tp |-> 0, repeat |-> 1,
                              pixel_length |-> 0, dur_n |-> d, dur_d |-> 1]
         IN IF Bit(parts[4], 1) THEN <<Plain(1, 0)>>
            ELSE IF Bit(parts[4], 2) THEN parse_slider(parts, n, time, tps, sm)
            ELSE IF Bit(parts[4], 8) /\ Len(parts) <= 5 THEN <<Plain(8, 1000)>>
            ELSE <<>>

\* _parse_hit_objects, one line (lines 219-281): the objects it appends
parse_hit_line(parts, n, tps, sm) ==
    IF Len(parts) < 4 THEN <<>>
    ELSE IF \E i \in 1..Len(parts) : i <= 5 /\ ~IsNum(parts[i]) THEN <<>>
    ELSE LET time == parts[3]  obj_type == parts[4]
             Plain(ty, d) == [type |-> ty, time |-> time, line |-> n,
                              via |-> "none", tp |-> 0, repeat |-> 1,
                              pixel_length |-> 0, dur_n |-> d, dur_d |-> 1]
         IN IF Bit(obj_type, 1) THEN <<Plain(1, 0)>>
            ELSE IF Bit(obj_type, 2) THEN parse_slider(parts, n, time, tps, sm)
            ELSE IF Bit(obj_type, 8)
                 THEN IF Len(parts) > 5
                      THEN IF IsNum(parts[6]) THEN <<Plain(8, parts[6] - time)>>
                           ELSE <<>>
                      ELSE <<Plain(8, 1000)>>
            ELSE <<>>

RECURSIVE parse_hit_objects(_, _, _, _)
parse_hit_objects(section, k, tps, sm) ==
    IF k > Len(section) THEN <<>>
    ELSE parse_hit_line(section[k], k, tps, sm)
         \o parse_hit_objects(section, k + 1, tps, sm)

\* list.sort(key=lambda obj: obj.time) is stable: an element is placed after
\* every element whose key is not greater
RECURSIVE InsertByTimeFirst(_, _)
InsertByTimeFirst(sorted, obj) ==
    IF sorted = <<>> THEN <<obj>>
    ELSE IF Head(sorted).time >= obj.time THEN <<obj>> \o sorted
    ELSE <<Head(sorted)>> \o InsertByTimeFirst(Tail(sorted), obj)

RECURSIVE InsertByTime(_, _)
InsertByTime(sorted, obj) ==
    IF sorted = <<>> THEN <<obj>>
    ELSE IF Head(sorted).time > obj.time THEN <<obj>> \o sorted
    ELSE <<Head(sorted)>> \o InsertByTime(Tail(sorted), obj)

RECURSIVE SortByTime(_)
SortByTime(list) ==
    IF list = <<>> THEN <<>>
    ELSE InsertByTime(SortByTime(SubSeq(list, 1, Len(list) - 1)), list[Len(list)])

ParseParked ==
    /\ content = [timing |-> <<>>, hits |-> <<>>, sm |-> 0]
    /\ timing_points = <<>>
    /\ parsed_objects = <<>>
    /\ parse_pc = "done"

\* OsuBeatmapParser.__init__ on a file
ParseInit ==
    /\ content \in Contents
    /\ timing_points = <<>>
    /\ parsed_objects = <<>>
    /\ parse_pc = "timing"

\* parse(), line 163
ParseTimingPoints ==
    /\ parse_pc = "timing"
    /\ timing_points' = parse_timing_points(content.timing, 1)
    /\ parse_pc' = "hits"
    /\ UNCHANGED <<content, parsed_objects>>
    /\ UNCHANGED <<monVars, clickVars, titleVars, physVars, targetVars, botVars, histVars>>

\* parse(), line 164
ParseHitObjects ==
    /\ parse_pc = "hits"
    /\ parsed_objects' = parse_hit_objects(content.hits, 1, timing_points, content.sm)
    /\ parse_pc' = "sort"
    /\ UNCHANGED <<content, timing_points>>
    /\ UNCHANGED <<monVars, clickVars, titleVars, physVars, targetVars, botVars, histVars>>

\* parse(), lines 166-167
ParseSort ==
    /\ parse_pc = "sort"
    /\ parsed_objects' = SortByTime(parsed_objects)
    /\ parse_pc' = "done"
    /\ UNCHANGED <<content, timing_points>>
    /\ UNCHANGED <<monVars, clickVars, titleVars, physVars, targetVars, botVars, histVars>>

ParseNext ==
    \/ ParseTimingPoints
    \/ ParseHitObjects
    \/ ParseSort

----------------------------------------------------------------------------
(* The chart: hit objects as the parser leaves them (sorted by time).      *)
(* type is 1 (hit circle), 2 (slider) or 8 (spinner); end_time is 0 for a  *)
(* hit circle (None in the source).                                        *)

Circle(t)     == [type |-> 1, time |-> t, end_time |-> 0]
Slider(t, e)  == [type |-> 2, time |-> t, end_time |-> e]
Spinner(t, e) == [type |-> 8, time |-> t, end_time |-> e]

Charts ==
    { <<Circle(110)>>,
      <<Circle(110), Circle(130)>>,
      <<Slider(40, 100), Slider(150, 200)>>,
      <<Slider(40, 200), Circle(80)>>,
      <<Spinner(10, 220)>>,
      <<Spinner(40, 100)>> }

\* values of the offset setting (offset_var)
Offsets == {0}

NoLoop == [pc |-> "none", wake |-> 0, ct |-> 0, act |-> <<>>, i |-> 0, run |-> 0]

LoopIds == 1..MaxLoops

\* every hit circle starts at most one Timer in each bot_loop thread
TimerIds == 1..(MaxObjs * MaxLoops)

Objs == 1..Len(hit_objects)

----------------------------------------------------------------------------
(* bot_loop: the active set.                                               *)

\* lines 1177-1186: the objects not yet clicked with -200 <= time_diff <= 800,
\* in chart order
RECURSIVE Collect(_, _)
Collect(k, current_time) ==
    IF k > Len(hit_objects) THEN <<>>
    ELSE LET obj == hit_objects[k]
             time_diff == obj.time - current_time
         IN IF obj.time \notin clicked_objects /\ -200 <= time_diff /\ time_diff <= 800
            THEN <<k>> \o Collect(k + 1, current_time)
            ELSE Collect(k + 1, current_time)

\* insert index k into a list sorted by |time_diff|, after its equals
RECURSIVE InsertByAbs(_, _, _)
InsertByAbs(k, sorted, current_time) ==
    IF sorted = <<>> THEN <<k>>
    ELSE IF Abs(hit_objects[k].time - current_time)
              < Abs(hit_objects[Head(sorted)].time - current_time)
         THEN <<k>> \o sorted
         ELSE <<Head(sorted)>> \o InsertByAbs(k, Tail(sorted), current_time)

\* line 1191: active_objects.sort(key=lambda x: abs(x[1])), a stable sort
RECURSIVE SortByAbs(_, _)
SortByAbs(list, current_time) ==
    IF list = <<>> THEN <<>>
    ELSE InsertByAbs(list[Len(list)],
                     SortByAbs(SubSeq(list, 1, Len(list) - 1), current_time),
                     current_time)

active_objects(current_time) == SortByAbs(Collect(1, current_time), current_time)

----------------------------------------------------------------------------
(* What target_position can hold: the pointer's own position (start(),     *)
(* line 1106), the position calculate_target_position gives for an object,  *)
(* a slider's interpolated position, or the spinner's rotating target.      *)
AtPointer    == [kind |-> "pointer", obj |-> 0]
AtObject(o)  == [kind |-> "object", obj |-> o]
AtSlider(o)  == [kind |-> "slider", obj |-> o]
AtSpin       == [kind |-> "spin", obj |-> 0]

\* spin_cursor, line 1414: the target is the point on the circle
spin_cursor(k) == [k EXCEPT !.tg = AtSpin]

----------------------------------------------------------------------------
(* The key state shared by the threads, as one record, and the key helpers *)
(* as functions on it.  A helper that calls SendInput is cut in two at the *)
(* call: the test of key_pressed with the SendInput, then the assignment   *)
(* to key_pressed and what follows it.                                     *)

K == [kp |-> key_pressed, vk |-> current_vk, dn |-> down, sl |-> active_slider,
      cl |-> clicked_objects, tm |-> timers, np |-> npress, nr |-> nrel,
      so |-> stop_obs, tg |-> target_position, ds |-> disturbed]

SetK(k) ==
    /\ key_pressed' = k.kp
    /\ current_vk' = k.vk
    /\ down' = k.dn
    /\ active_slider' = k.sl
    /\ clicked_objects' = k.cl
    /\ timers' = k.tm
    /\ npress' = k.np
    /\ nrel' = k.nr
    /\ stop_obs' = k.so
    /\ target_position' = k.tg
    /\ disturbed' = k.ds

InStop == ctl \in {"stop_chk", "stop_flag", "stop_end"}

\* WindowsInputHelper.press_key(self.current_vk), on behalf of object o
SendKeyDown(k, o, counted) ==
    [k EXCEPT !.dn = @ \cup {k.vk},
              !.np = IF counted THEN [@ EXCEPT ![o] = @ + 1] ELSE @]

\* WindowsInputHelper.release_key(self.current_vk), on behalf of object o
SendKeyUp(k, o, counted) ==
    [k EXCEPT !.dn = @ \ {k.vk},
              !.nr = IF counted THEN [@ EXCEPT ![o] = @ + 1] ELSE @,
              !.so = IF InStop THEN [@ EXCEPT !.rels = @ + 1] ELSE @]

\* RelaxBot.toggle_key
toggle_key(vk) == IF vk = "z" THEN "x" ELSE "z"

\* RelaxBot.release_key after its SendInput: key_pressed = False; toggle_key()
release_key_tail_reset(k) == [k EXCEPT !.kp = FALSE, !.cl = {}]

release_key_tail_no_toggle(k) == [k EXCEPT !.kp = FALSE]

release_key_tail(k) == [k EXCEPT !.kp = FALSE, !.vk = toggle_key(@)]

\* RelaxBot.press_key after its SendInput: key_pressed = True
press_key_tail(k) == [k EXCEPT !.kp = TRUE]

----------------------------------------------------------------------------
(* bot_loop: the handling of one member of active_objects (lines 1202-1230).*)
(* A handler returns the new key state and where the thread goes: "next"   *)
(* (the next member), "press_ret" or "release_ret" (inside press_key or    *)
(* release_key, after its SendInput), or "raise" (an exception is raised). *)

CLICK_DELAY == 50

Result(k, pc) == [k |-> k, pc |-> pc]

\* click_circle after press_key has returned (line 1369), then line 1206
click_circle_tail(k, o) ==
    [k EXCEPT !.tm = Append(@, [due |-> now + CLICK_DELAY, pc |-> "wait",
                                obj |-> o, run |-> starts]),
              !.cl = @ \cup {hit_objects[o].time}]

\* lines 1203-1206
circle_handler(k, o, ct, counted) ==
    IF should_click(accuracy_mode, hit_objects[o].time, ct)
    THEN IF ~k.kp
         THEN Result(SendKeyDown(k, o, counted), "press_ret")
         ELSE Result(click_circle_tail(k, o), "next")
    ELSE Result(k, "next")

\* get_slider_position, lines 1383-1386: an end_time of 0 is falsy and returns
\* None; otherwise the division by (end_time - time) raises ZeroDivisionError
\* when the slider ends at its own time
get_slider_position_raises(o) ==
    /\ hit_objects[o].end_time # 0
    /\ hit_objects[o].end_time = hit_objects[o].time

\* lines 1214-1220, with end_slider up to the SendInput of release_key; an
\* exception of get_slider_position leaves the handler ("raise")
slider_follow(k, o, ct, counted) ==
    IF k.sl # 0 /\ hit_objects[k.sl].time = hit_objects[o].time
    THEN IF ct >= hit_objects[o].end_time
         THEN IF k.kp
              THEN Result(SendKeyUp(k, o, counted), "release_ret")
              ELSE Result([k EXCEPT !.sl = 0], "next")
         ELSE IF get_slider_position_raises(o)
              THEN Result(k, "raise")
              ELSE IF hit_objects[o].end_time # 0
                   THEN Result([k EXCEPT !.tg = AtSlider(o)], "next")
                   ELSE Result(k, "next")
    ELSE Result(k, "next")

\* lines 1208-1220
slider_handler(k, o, ct, counted) ==
    IF should_click(accuracy_mode, hit_objects[o].time, ct) /\ k.sl = 0
    THEN LET k1 == [k EXCEPT !.sl = o] IN
         IF ~k1.kp
         THEN Result(SendKeyDown(k1, o, counted), "press_ret")
         ELSE slider_follow([k1 EXCEPT !.cl = @ \cup {hit_objects[o].time}],
                            o, ct, counted)
    ELSE slider_follow(k, o, ct, counted)

\* lines 1222-1230
spinner_handler(k, o, ct, counted) ==
    LET obj == hit_objects[o]
        time_diff == obj.time - ct
    IN
    IF time_diff <= 0 /\ ct < obj.end_time
    THEN IF ~k.kp
         THEN Result(SendKeyDown(k, o, counted), "press_ret")
         ELSE Result(spin_cursor(k), "next")
    ELSE IF ct >= obj.end_time /\ obj.time \notin k.cl
         THEN IF k.kp
              THEN Result(SendKeyUp(k, o, counted), "release_ret")
              ELSE Result([k EXCEPT !.cl = @ \cup {obj.time}], "next")
         ELSE Result(k, "next")

handler(k, o, ct, counted) ==
    IF hit_objects[o].type = 1 THEN circle_handler(k, o, ct, counted)
    ELSE IF hit_objects[o].type = 2 THEN slider_handler(k, o, ct, counted)
    ELSE spinner_handler(k, o, ct, counted)

\* the rest of the handler once press_key's SendInput has returned
press_ret(k, o, ct, counted) ==
    LET k1 == press_key_tail(k) IN
    IF hit_objects[o].type = 1 THEN Result(click_circle_tail(k1, o), "next")
    ELSE IF hit_objects[o].type = 2
         THEN slider_follow([k1 EXCEPT !.cl = @ \cup {hit_objects[o].time}],
                            o, ct, counted)
    ELSE Result(spin_cursor(k1), "next")

\* the rest of the handler once release_key's SendInput has returned
release_ret(k, o) ==
    LET k1 == release_key_tail(k) IN
    IF hit_objects[o].type = 2 THEN Result([k1 EXCEPT !.sl = 0], "next")
    ELSE Result([k1 EXCEPT !.cl = @ \cup {hit_objects[o].time}], "next")

----------------------------------------------------------------------------
(* bot_loop threads.  A thread at "while" is asleep until the clock reaches *)
(* its wake time: time.sleep returns no earlier than asked.                *)

\* line 512: target_fps
target_fps == 120

\* line 1161: frame_time, in whole ms
frame_time == 1000 \div target_fps

\* line 1165: time.sleep(0.05) while paused
PAUSE_SLEEP == 50

\* line 1170: time.sleep(0.1) while the osu! window is not active
INACTIVE_SLEEP == 100

\* the thread in time.sleep until the clock reads `wake`, then at line 1163
Asleep(wake) == [NoLoop EXCEPT !.pc = "while", !.wake = wake]

\* a tick of run r with current_time ct has run to its end
TickDone(ct, r) ==
    passed' = [o \in Objs |->
                 passed[o] \/ (r = starts /\ hit_objects[o].type # 1
                               /\ ct >= hit_objects[o].end_time)]

\* line 1163: while self.running
LoopWhile(l) ==
    /\ loops[l].pc = "while"
    /\ now >= loops[l].wake
    /\ loops' = [loops EXCEPT ![l].pc = IF running THEN "gate" ELSE "done"]
    /\ UNCHANGED <<hit_objects, offset_ms, velocity, target_position, accuracy_mode, running, paused, clicked_objects,
                   current_vk, key_pressed, active_slider, start_time, now, down,
                   timers, ctl, starts>>
    /\ UNCHANGED <<monVars, fnVars, armVars, histVars>>

\* What the window inspector can be asked and what it answers: the foreground
\* window is the target ("target": its title holds 'osu!' or 'lazer'), another
\* window ("other") or none ("none"); the inspector answers ("ok") or is
\* missing or raises ("unavailable").
FgWindows  == {"target", "other", "none"}
Inspectors == {"ok", "unavailable"}

\* RelaxBot.is_osu_window_active
is_osu_window_active(window, inspector) ==
    IF inspector = "unavailable" THEN TRUE ELSE window = "target"

\* lines 1164-1199: the pause and foreground tests, current_time, the active
\* set, the motion target and update_cursor_physics (the chart's objects lie
\* away from the pointer, so a tick with an active object drives the pointer)
LoopGate(l, window, inspector) ==
    /\ loops[l].pc = "gate"
    /\ IF paused \/ ~is_osu_window_active(window, inspector)
       THEN /\ loops' = [loops EXCEPT ![l] = Asleep(now + (IF paused THEN PAUSE_SLEEP
                                                              ELSE INACTIVE_SLEEP))]
            /\ UNCHANGED <<passed, velocity, target_position, disturbed>>
       ELSE LET current_time == now - start_time
                act == active_objects(current_time)
            IN IF act = <<>>
               THEN /\ loops' = [loops EXCEPT ![l] = Asleep(now + frame_time)]
                    /\ TickDone(current_time, starts)
                    /\ disturbed' = FALSE
                    /\ UNCHANGED <<velocity, target_position>>
               ELSE /\ loops' = [loops EXCEPT ![l] = [pc |-> "obj", wake |-> 0,
                                                     ct |-> current_time,
                                                     act |-> act, i |-> 1, run |-> starts]]
                    /\ velocity' = 1
                    /\ target_position' = AtObject(act[1])
                    /\ disturbed' = FALSE
                    /\ UNCHANGED passed
    /\ UNCHANGED <<hit_objects, offset_ms, accuracy_mode, running, paused, clicked_objects,
                   current_vk, key_pressed, active_slider, start_time, now, down,
                   timers, ctl, starts>>
    /\ UNCHANGED <<monVars, fnVars, armVars, npress, nrel, stop_obs>>

\* bot_loop has no try statement and is the thread's target (line 1114): an
\* exception raised in a tick propagates out of bot_loop and ends the thread
Raised == [NoLoop EXCEPT !.pc = "raised"]

\* the thread takes the outcome r of a handler step
LoopTake(l, r) ==
    LET me == loops[l] IN
    /\ SetK(r.k)
    /\ IF r.pc = "next"
       THEN IF me.i + 1 > Len(me.act)
            THEN /\ loops' = [loops EXCEPT ![l] = Asleep(now + frame_time)]
                 /\ TickDone(me.ct, me.run)
            ELSE /\ loops' = [loops EXCEPT ![l].pc = "obj", ![l].i = me.i + 1]
                 /\ UNCHANGED passed
       ELSE IF r.pc = "raise"
            THEN /\ loops' = [loops EXCEPT ![l] = Raised]
                 /\ UNCHANGED passed
            ELSE /\ loops' = [loops EXCEPT ![l].pc = r.pc]
                 /\ UNCHANGED passed
    /\ UNCHANGED <<hit_objects, offset_ms, velocity, accuracy_mode, running, paused, start_time, now,
                   ctl, starts>>
    /\ UNCHANGED <<monVars, fnVars, armVars>>

\* lines 1202-1230 for the current member of active_objects
LoopObj(l) ==
    LET me == loops[l] IN
    /\ me.pc = "obj"
    /\ LoopTake(l, handler(K, me.act[me.i], me.ct, me.run = starts))

\* press_key returns inside the handler
LoopPressRet(l) ==
    LET me == loops[l] IN
    /\ me.pc = "press_ret"
    /\ LoopTake(l, press_ret(K, me.act[me.i], me.ct, me.run = starts))

\* release_key returns inside the handler
LoopReleaseRet(l) ==
    LET me == loops[l] IN
    /\ me.pc = "release_ret"
    /\ LoopTake(l, release_ret(K, me.act[me.i]))

----------------------------------------------------------------------------
(* threading.Timer(0.05, self.release_key)                                 *)

Remove(seq, n) == SubSeq(seq, 1, n - 1) \o SubSeq(seq, n + 1, Len(seq))

\* the timer expires and runs release_key up to its SendInput
TimerFire(n) ==
    /\ n \in 1..Len(timers)
    /\ timers[n].pc = "wait"
    /\ now >= timers[n].due
    /\ IF key_pressed
       THEN SetK([SendKeyUp(K, timers[n].obj, timers[n].run = starts)
                    EXCEPT !.tm = [@ EXCEPT ![n].pc = "ret"]])
       ELSE SetK([K EXCEPT !.tm = Remove(@, n)])
    /\ UNCHANGED <<hit_objects, offset_ms, velocity, accuracy_mode, running, paused, start_time, now,
                   loops, ctl, starts, passed>>
    /\ UNCHANGED <<monVars, fnVars, armVars>>

\* release_key's SendInput has returned in the timer thread
TimerRet(n) ==
    /\ n \in 1..Len(timers)
    /\ timers[n].pc = "ret"
    /\ SetK([release_key_tail(K) EXCEPT !.tm = Remove(@, n)])
    /\ UNCHANGED <<hit_objects, offset_ms, velocity, accuracy_mode, running, paused, start_time, now,
                   loops, ctl, starts, passed>>
    /\ UNCHANGED <<monVars, fnVars, armVars>>

----------------------------------------------------------------------------
(* The control surface: start, toggle_pause, stop.                         *)

NoStop == [pre |-> FALSE, rels |-> 0, ret |-> FALSE, kp |-> FALSE, det |-> FALSE]

\* RelaxBot.start, lines 1077-1101: the guards, the settings, the run flags and
\* the reset of the run's key state; start() then reads the pointer position.
\* When the caller is on_beatmap_detected (line 1073) the call has been made.
StartBegin(mode, offset) ==
    /\ ctl = "idle"
    /\ ~running
    /\ hit_objects # <<>>
    /\ starts < MaxLoops
    /\ offset_ms' = offset
    /\ accuracy_mode' = mode
    /\ running' = TRUE
    /\ paused' = FALSE
    /\ clicked_objects' = {}
    /\ current_vk' = "z"
    /\ key_pressed' = FALSE
    /\ active_slider' = 0
    /\ starts' = starts + 1
    /\ ctl' = "start_physics"
    /\ npress' = [o \in Objs |-> 0]
    /\ nrel' = [o \in Objs |-> 0]
    /\ passed' = [o \in Objs |-> FALSE]
    /\ waiting_mode' = FALSE
    /\ detect_pc' = IF detect_pc = "call_start" THEN "returned" ELSE detect_pc
    /\ UNCHANGED <<hit_objects, velocity, target_position, start_time, now, down, timers, loops,
                   stop_obs, disturbed>>
    /\ UNCHANGED <<monVars, fnVars>>

\* RelaxBot.start, lines 1104-1109: the cursor physics and start_time; start()
\* then updates the buttons
StartPhysics ==
    /\ ctl = "start_physics"
    /\ velocity' = 0
    /\ target_position' = AtPointer
    /\ start_time' = now - offset_ms
    /\ ctl' = "start_thread"
    /\ UNCHANGED <<hit_objects, offset_ms, accuracy_mode, running, paused,
                   clicked_objects, current_vk, key_pressed, active_slider, now,
                   down, timers, loops, starts>>
    /\ UNCHANGED <<monVars, fnVars, armVars, histVars>>

\* RelaxBot.start, lines 1114-1119: the bot_loop thread is started; return
StartThread ==
    /\ ctl = "start_thread"
    /\ loops' = [loops EXCEPT ![starts] = Asleep(now)]
    /\ ctl' = "idle"
    /\ UNCHANGED <<hit_objects, offset_ms, velocity, target_position, accuracy_mode, running, paused,
                   clicked_objects, current_vk, key_pressed, active_slider,
                   start_time, now, down, timers, starts>>
    /\ UNCHANGED <<monVars, fnVars, armVars, histVars>>

PauseBeginAnyway ==
    /\ ctl = "idle"
    /\ paused' = ~paused
    /\ ctl' = IF ~paused THEN "pause_chk" ELSE "idle"
    /\ UNCHANGED <<hit_objects, offset_ms, velocity, target_position, accuracy_mode, running,
                   clicked_objects, current_vk, key_pressed, active_slider,
                   start_time, now, down, timers, loops, starts>>
    /\ disturbed' = TRUE
    /\ UNCHANGED <<monVars, fnVars, armVars, npress, nrel, passed, stop_obs>>

\* RelaxBot.toggle_pause, lines 1123-1130 (and 1135-1136 on resume)
PauseBegin ==
    /\ ctl = "idle"
    /\ running
    /\ paused' = ~paused
    /\ ctl' = IF ~paused THEN "pause_chk" ELSE "idle"
    /\ UNCHANGED <<hit_objects, offset_ms, velocity, target_position, accuracy_mode, running, clicked_objects, current_vk,
                   key_pressed, active_slider, start_time, now, down, timers, loops,
                   starts>>
    /\ disturbed' = TRUE
    /\ UNCHANGED <<monVars, fnVars, armVars, npress, nrel, passed, stop_obs>>

\* RelaxBot.toggle_pause, lines 1131-1132
PauseRelease ==
    /\ ctl = "pause_chk"
    /\ IF key_pressed
       THEN SetK(SendKeyUp(K, 0, FALSE)) /\ ctl' = "pause_flag"
       ELSE SetK(K) /\ ctl' = "idle"
    /\ UNCHANGED <<hit_objects, offset_ms, velocity, accuracy_mode, running, paused, start_time, now,
                   loops, starts, passed>>
    /\ UNCHANGED <<monVars, fnVars, armVars>>

\* RelaxBot.toggle_pause, line 1133
PauseFlag ==
    /\ ctl = "pause_flag"
    /\ SetK(release_key_tail_no_toggle(K))
    /\ ctl' = "idle"
    /\ UNCHANGED <<hit_objects, offset_ms, velocity, accuracy_mode, running, paused, start_time, now,
                   loops, starts, passed>>
    /\ UNCHANGED <<monVars, fnVars, armVars>>

\* RelaxBot.stop, lines 1140-1142
StopBegin ==
    /\ ctl = "idle"
    /\ running' = FALSE
    /\ paused' = FALSE
    /\ ctl' = "stop_chk"
    /\ stop_obs' = [pre |-> active_slider # 0 /\ key_pressed /\ current_vk \in down,
                    rels |-> 0, ret |-> FALSE, kp |-> FALSE,
                    det |-> detect_pc \in {"sleep", "call_start"}]
    /\ waiting_mode' = FALSE
    /\ UNCHANGED <<hit_objects, offset_ms, velocity, target_position, accuracy_mode, clicked_objects, current_vk,
                   key_pressed, active_slider, start_time, now, down, timers, loops,
                   starts, detect_pc>>
    /\ disturbed' = TRUE
    /\ UNCHANGED <<monVars, fnVars, npress, nrel, passed>>

\* RelaxBot.stop, lines 1144-1145
StopRelease ==
    /\ ctl = "stop_chk"
    /\ IF key_pressed
       THEN SetK(SendKeyUp(K, 0, FALSE)) /\ ctl' = "stop_flag"
       ELSE SetK(K) /\ ctl' = "stop_end"
    /\ UNCHANGED <<hit_objects, offset_ms, velocity, accuracy_mode, running, paused, start_time, now,
                   loops, starts, passed>>
    /\ UNCHANGED <<monVars, fnVars, armVars>>

\* RelaxBot.stop, line 1146
StopFlag ==
    /\ ctl = "stop_flag"
    /\ SetK(release_key_tail_no_toggle(K))
    /\ ctl' = "stop_end"
    /\ UNCHANGED <<hit_objects, offset_ms, velocity, accuracy_mode, running, paused, start_time, now,
                   loops, starts, passed>>
    /\ UNCHANGED <<monVars, fnVars, armVars>>

\* RelaxBot.stop, lines 1148-1157: the rest, and the return
StopEnd ==
    /\ ctl = "stop_end"
    /\ ctl' = "idle"
    /\ stop_obs' = [stop_obs EXCEPT !.ret = TRUE, !.kp = key_pressed]
    /\ UNCHANGED <<hit_objects, offset_ms, velocity, target_position, accuracy_mode, running, paused, clicked_objects,
                   current_vk, key_pressed, active_slider, start_time, now, down,
                   timers, loops, starts>>
    /\ UNCHANGED <<monVars, fnVars, armVars, npress, nrel, passed, disturbed>>

\* RelaxBot.toggle_waiting, lines 1034-1054 (hit_objects loaded, pywin32
\* present): waiting mode is entered and a window monitor is started with
\* on_beatmap_detected as its callback
ArmBegin ==
    /\ ctl = "idle"
    /\ ~waiting_mode
    /\ hit_objects # <<>>
    /\ waiting_mode' = TRUE
    /\ stop_obs' = [stop_obs EXCEPT !.det = FALSE]
    /\ UNCHANGED <<hit_objects, offset_ms, velocity, target_position, accuracy_mode, running, paused,
                   clicked_objects, current_vk, key_pressed, active_slider,
                   start_time, now, down, timers, loops, ctl, starts, detect_pc>>
    /\ UNCHANGED <<monVars, fnVars, npress, nrel, passed, disturbed>>

\* RelaxBot.on_beatmap_detected, lines 1063-1070, called by the monitor's
\* thread: return when not in waiting mode, otherwise time.sleep(0.5)
DetectBegin ==
    /\ detect_pc \in {"none", "returned"}
    /\ detect_pc' = IF waiting_mode THEN "sleep" ELSE "returned"
    /\ detect_pc' # detect_pc
    /\ UNCHANGED <<hit_objects, offset_ms, velocity, target_position, accuracy_mode, running, paused,
                   clicked_objects, current_vk, key_pressed, active_slider,
                   start_time, now, down, timers, loops, ctl, starts, waiting_mode>>
    /\ UNCHANGED <<monVars, fnVars, histVars>>

\* RelaxBot.on_beatmap_detected, line 1072: the sleep has returned
DetectWake ==
    /\ detect_pc = "sleep"
    /\ waiting_mode' = FALSE
    /\ detect_pc' = "call_start"
    /\ UNCHANGED <<hit_objects, offset_ms, velocity, target_position, accuracy_mode, running, paused,
                   clicked_objects, current_vk, key_pressed, active_slider,
                   start_time, now, down, timers, loops, ctl, starts>>
    /\ UNCHANGED <<monVars, fnVars, histVars>>

\* RelaxBot.on_beatmap_detected, line 1073: self.start() (taken here while no
\* control-surface call is in progress)
DetectStart(mode, offset) ==
    /\ detect_pc = "call_start"
    /\ StartBegin(mode, offset)

\* line 1073 when start() returns at once (lines 1077-1082)
DetectStartReturns ==
    /\ detect_pc = "call_start"
    /\ ctl = "idle"
    /\ running \/ hit_objects = <<>>
    /\ detect_pc' = "returned"
    /\ UNCHANGED <<hit_objects, offset_ms, velocity, target_position, accuracy_mode, running, paused,
                   clicked_objects, current_vk, key_pressed, active_slider,
                   start_time, now, down, timers, loops, ctl, starts, waiting_mode>>
    /\ UNCHANGED <<monVars, fnVars, histVars>>

\* Scheduling: the steps between two sleeps take less than ClockStep, and a
\* thread whose sleep has ended runs before the clock moves on.  So the clock
\* advances only when the control surface is idle, every bot_loop thread is
\* asleep or gone, and every Timer is still waiting for its time.
Quiet ==
    /\ ctl = "idle"
    /\ \A l \in LoopIds :
          \/ loops[l].pc \in {"none", "done", "raised"}
          \/ loops[l].pc = "while" /\ loops[l].wake > now
    /\ \A n \in 1..Len(timers) : timers[n].pc = "wait" /\ timers[n].due > now

\* a run, a bot_loop thread or a Timer is still there
Alive ==
    \/ running
    \/ \E l \in LoopIds : loops[l].pc \notin {"none", "done", "raised"}
    \/ timers # <<>>

\* the wall clock advances
Advance ==
    /\ Alive
    /\ Quiet
    /\ now + ClockStep <= MaxTime
    /\ now' = now + ClockStep
    /\ UNCHANGED <<hit_objects, offset_ms, velocity, target_position, accuracy_mode, running, paused, clicked_objects,
                   current_vk, key_pressed, active_slider, start_time, down, timers,
                   loops, ctl, starts>>
    /\ UNCHANGED <<monVars, fnVars, armVars, histVars>>

----------------------------------------------------------------------------
(* update_cursor_physics (lines 1237-1294) on drawn positions.  The pointer *)
(* and its target lie on one horizontal line of the screen, so dy = 0, the   *)
(* direction is (+-1, 0) and velocity[1] stays 0.0: the motion is the motion *)
(* of the x coordinate.  Lengths are in thousandths of a pixel.             *)

\* the unit of length: 1 pixel
Px == 1000

\* line 40
SCREEN_WIDTH == 1920

\* line 524: arrival_threshold, pixels
arrival_threshold == 5

auto_acceleration_tenth == 3500 \div 10

\* line 522: auto_acceleration = 3.5 pixels per tick
auto_acceleration == 3500

\* line 523: auto_friction = 0.85, in hundredths
auto_friction == 85

\* line 1272: max_speed = 50.0 pixels per tick
max_speed == 50

\* line 1284: the deceleration zone, pixels
DECEL_DISTANCE == 50

\* line 1262: the distance under which the acceleration is scaled down, pixels
ACCEL_DISTANCE == 100

\* a * b / c on thousandths, rounded towards zero
MulDiv(a, b, c) ==
    IF a * b >= 0 THEN (a * b) \div c ELSE 0 - ((0 - a * b) \div c)

Min(a, b) == IF a <= b THEN a ELSE b
Max(a, b) == IF a >= b THEN a ELSE b

\* RelaxBot.update_cursor_physics: the new [pos, vel] for the target `target`,
\* with the product fac of the factors the velocity was multiplied by, in
\* ten-thousandths, rounded towards zero
update_cursor_physics(pos, vel, target) ==
    LET dx       == target - pos
        distance == Abs(dx)                                       \* line 1247
        dir_x    == IF dx > 0 THEN 1 ELSE IF dx < 0 THEN 0 - 1 ELSE 0
        \* line 1262
        acceleration_strength ==
            MulDiv(Min(distance, ACCEL_DISTANCE * Px), auto_acceleration,
                   ACCEL_DISTANCE * Px)
        v1 == vel + dir_x * acceleration_strength                 \* line 1264
        v2 == MulDiv(v1, auto_friction, 100)                      \* line 1268
        v3 == IF Abs(v2) > max_speed * Px                         \* lines 1272-1277
              THEN (IF v2 > 0 THEN max_speed * Px ELSE 0 - max_speed * Px)
              ELSE v2
        p1 == pos + v3                                            \* line 1280
        v4 == IF distance < DECEL_DISTANCE * Px                   \* lines 1284-1287
              THEN MulDiv(v3, distance, DECEL_DISTANCE * Px)
              ELSE v3
        p2 == Max(0, Min(SCREEN_WIDTH * Px, p1))                  \* line 1290
        clamped == Abs(v2) > max_speed * Px
        braked  == distance < DECEL_DISTANCE * Px
    IN
    IF distance < arrival_threshold * Px                          \* lines 1249-1251
    THEN [pos |-> pos, vel |-> vel, fac |-> 100 * 100]
    ELSE [pos |-> p2, vel |-> v4,
          fac |-> LET f1 == auto_friction * 100
                      f2 == IF clamped THEN MulDiv(f1, max_speed * Px, Abs(v2))
                            ELSE f1
                  IN  IF braked THEN MulDiv(f2, distance, DECEL_DISTANCE * Px)
                      ELSE f2]

MaxTicks    == 115   \* update_cursor_physics calls made on one drawn input
StartStride == 37    \* the drawn start positions are this many pixels apart

PhysTargets == {0, 700, SCREEN_WIDTH}
PhysStarts  == {x \in 0..SCREEN_WIDTH : x % StartStride = 0}

NoTick == [spin |-> FALSE, fac |-> 100 * 100]

PhysParked ==
    /\ ph_pos = 0
    /\ ph_vel = 0
    /\ ph_target = 0
    /\ ph_n = 0 - 1
    /\ ph_arrived = FALSE
    /\ ph_last = NoTick

\* the pointer at rest (lines 1105-1107) farther than the threshold from its
\* target
PhysInit ==
    /\ \E x \in PhysStarts, t \in PhysTargets :
          /\ Abs(t - x) > arrival_threshold
          /\ ph_pos = x * Px
          /\ ph_target = t * Px
    /\ ph_vel = 0
    /\ ph_n = 0
    /\ ph_arrived = FALSE
    /\ ph_last = NoTick

\* line 1199: one tick's update_cursor_physics call, the target unchanged
PhysTick ==
    LET r == update_cursor_physics(ph_pos, ph_vel, ph_target) IN
    /\ ph_n >= 0
    /\ ph_n < MaxTicks
    /\ ph_pos' = r.pos
    /\ ph_vel' = r.vel
    /\ ph_n' = ph_n + 1
    /\ ph_arrived' = (ph_arrived \/ Abs(ph_target - r.pos) < arrival_threshold * Px)
    /\ ph_last' = [spin |-> FALSE, fac |-> r.fac]
    /\ UNCHANGED ph_target
    /\ UNCHANGED <<monVars, clickVars, titleVars, parseVars, targetVars, botVars, histVars>>

\* lines 1417-1418: spin_cursor multiplies the velocity by 0.95, in hundredths
SPIN_FACTOR == 95

\* One tick while a spinner is in progress and nearest: line 1196 sets the
\* target to the spinner's literal position, line 1199 calls
\* update_cursor_physics, and the spinner branch calls spin_cursor (line 1226),
\* which multiplies the velocity once more; the target spin_cursor writes is
\* replaced at line 1196 of the next tick.
PhysSpinTick ==
    LET r == update_cursor_physics(ph_pos, ph_vel, ph_target) IN
    /\ ph_n >= 0
    /\ ph_n < MaxTicks
    /\ ph_pos' = r.pos
    /\ ph_vel' = MulDiv(r.vel, SPIN_FACTOR, 100)
    /\ ph_n' = ph_n + 1
    /\ ph_arrived' = (ph_arrived \/ Abs(ph_target - r.pos) < arrival_threshold * Px)
    /\ ph_last' = [spin |-> TRUE, fac |-> MulDiv(r.fac, SPIN_FACTOR, 100)]
    /\ UNCHANGED ph_target
    /\ UNCHANGED <<monVars, clickVars, titleVars, parseVars, targetVars, botVars, histVars>>

----------------------------------------------------------------------------
(* calculate_target_position (lines 1296-1318) on drawn inputs.  The value  *)
(* of calculate_dance_offset is an input: a pair of whole pixels no larger  *)
(* than the intensity its sine and cosine are multiplied by.                *)

\* lines 38-43: the chart and screen sizes behind SCALE_X and SCALE_Y
OSU_WIDTH     == 512
OSU_HEIGHT    == 384
SCREEN_HEIGHT == 1080

\* lines 1304 and 1308: the thresholds on time_until, ms
DANCE_FULL_MS == 150
DANCE_NONE_MS == 50

\* lines 1325-1326: base_intensity * dance_intensity = 15.0 * 0.5, in tenths
DANCE_INTENSITY == 75

\* line 1332: distance_factor reaches 1.0 at this time_until, ms
DANCE_RAMP_MS == 500

\* lines 1298-1299: int(obj.x * SCALE_X), int(obj.y * SCALE_Y)
base_position(obj) ==
    <<MulDiv(obj.x, SCREEN_WIDTH, OSU_WIDTH), MulDiv(obj.y, SCREEN_HEIGHT, OSU_HEIGHT)>>

\* lines 1326-1333: the intensity, whole pixels: no offset component that
\* calculate_dance_offset returns is larger
dance_intensity_at(time_until) ==
    MulDiv(DANCE_INTENSITY, Max(0, Min(time_until, DANCE_RAMP_MS)), 10 * DANCE_RAMP_MS)

dance_scaled_full(offset, time_until) == offset

\* lines 1310-1314: int(dance_offset[i] * intensity_scale)
dance_scaled(offset, time_until) ==
    MulDiv(offset, time_until - DANCE_NONE_MS, DANCE_FULL_MS - DANCE_NONE_MS)

\* RelaxBot.calculate_target_position, dance_offset being the value of
\* calculate_dance_offset(current_time, obj, time_until)
calculate_target_position(obj, current_time, dance_offset) ==
    LET base       == base_position(obj)
        time_until == obj.time - current_time
    IN
    IF time_until > DANCE_FULL_MS
    THEN <<base[1] + dance_offset[1], base[2] + dance_offset[2]>>
    ELSE IF time_until > DANCE_NONE_MS
         THEN <<base[1] + dance_scaled(dance_offset[1], time_until),
                base[2] + dance_scaled(dance_offset[2], time_until)>>
         ELSE base

MaxOffset == 7      \* the drawn offsets are at most this many pixels

TargetObjs   == { [x |-> 0, y |-> 0, time |-> 1000],
                  [x |-> 257, y |-> 191, time |-> 1000],
                  [x |-> 511, y |-> 383, time |-> 1000] }
TargetUntils == {0 - 200, 0, 49, 50, 51, 75, 99, 100, 125, 149, 150, 151, 300,
                 499, 500, 800}
TargetOffsets == (0 - MaxOffset)..MaxOffset

TargetParked ==
    /\ tg_obj = [x |-> 0, y |-> 0, time |-> 0]
    /\ tg_now = 0
    /\ tg_off = <<0, 0>>
    /\ tg_res = <<>>

TargetInit ==
    /\ tg_obj \in TargetObjs
    /\ \E u \in TargetUntils : tg_now = tg_obj.time - u
    /\ tg_off \in { off \in TargetOffsets \X TargetOffsets :
                       /\ Abs(off[1]) <= dance_intensity_at(tg_obj.time - tg_now)
                       /\ Abs(off[2]) <= dance_intensity_at(tg_obj.time - tg_now) }
    /\ tg_res = <<>>

\* line 1195: target_x, target_y = self.calculate_target_position(...)
ApplyTarget ==
    /\ tg_res = <<>>
    /\ tg_res' = calculate_target_position(tg_obj, tg_now, tg_off)
    /\ UNCHANGED <<tg_obj, tg_now, tg_off>>
    /\ UNCHANGED <<monVars, clickVars, titleVars, parseVars, physVars, botVars, histVars>>

----------------------------------------------------------------------------
(* Initial states and specifications.                                      *)

\* RelaxBot.__init__ (lines 485-516), with hit_objects as load_beatmap leaves it
BotInitAt(chart, clock) ==
    /\ hit_objects = chart
    /\ offset_ms = 0
    /\ velocity = 0
    /\ target_position = AtPointer
    /\ accuracy_mode = "perfect"
    /\ running = FALSE
    /\ paused = FALSE
    /\ clicked_objects = {}
    /\ current_vk = "z"
    /\ key_pressed = FALSE
    /\ active_slider = 0
    /\ start_time = 0
    /\ now = clock
    /\ down = {}
    /\ timers = <<>>
    /\ loops = [l \in LoopIds |-> NoLoop]
    /\ ctl = "idle"
    /\ starts = 0
    /\ waiting_mode = FALSE
    /\ detect_pc = "none"
    /\ npress = [o \in 1..Len(chart) |-> 0]
    /\ nrel = [o \in 1..Len(chart) |-> 0]
    /\ passed = [o \in 1..Len(chart) |-> FALSE]
    /\ stop_obs = NoStop
    /\ disturbed = FALSE

BotInitWith(chart) == BotInitAt(chart, 0)

BotParked == BotInitWith(<<>>)

\* the state RelaxBot.start (lines 1075-1116) leaves when called on a fresh
\* RelaxBot at clock 0 with `chart` loaded and the settings mode, offset_ms
Started(chart, mode, offset) ==
    /\ hit_objects = chart
    /\ offset_ms = offset
    /\ velocity = 0
    /\ target_position = AtPointer
    /\ accuracy_mode = mode
    /\ running = TRUE
    /\ paused = FALSE
    /\ clicked_objects = {}
    /\ current_vk = "z"
    /\ key_pressed = FALSE
    /\ active_slider = 0
    /\ start_time = 0 - offset
    /\ now = 0
    /\ down = {}
    /\ timers = <<>>
    /\ loops = [l \in LoopIds |-> IF l = 1 THEN Asleep(0) ELSE NoLoop]
    /\ ctl = "idle"
    /\ starts = 1
    /\ waiting_mode = FALSE
    /\ detect_pc = "none"
    /\ npress = [o \in 1..Len(chart) |-> 0]
    /\ nrel = [o \in 1..Len(chart) |-> 0]
    /\ passed = [o \in 1..Len(chart) |-> FALSE]
    /\ stop_obs = NoStop
    /\ disturbed = FALSE

BotInit == \E chart \in Charts, mode \in AccuracyModes, offset \in Offsets :
               Started(chart, mode, offset)

\* one playback run: from the return of start() on
BotNext ==
    \/ PauseBegin
    \/ PauseRelease
    \/ PauseFlag
    \/ StopBegin
    \/ StopRelease
    \/ StopFlag
    \/ StopEnd
    \/ \E l \in LoopIds : LoopWhile(l)
    \/ \E l \in LoopIds, window \in FgWindows, inspector \in Inspectors :
          LoopGate(l, window, inspector)
    \/ \E l \in LoopIds : LoopObj(l)
    \/ \E l \in LoopIds : LoopPressRet(l)
    \/ \E l \in LoopIds : LoopReleaseRet(l)
    \/ \E n \in TimerIds : TimerFire(n)
    \/ \E n \in TimerIds : TimerRet(n)
    \/ Advance

\* the playback scheduler
Init == BotInit /\ MonInit /\ ClickParked /\ ParseParked /\ TitleParked /\ PhysParked /\ TargetParked
Next == BotNext
Spec == Init /\ [][Next]_vars

\* the window monitor
InitMon == MonInit /\ BotParked /\ ClickParked /\ ParseParked /\ TitleParked /\ PhysParked /\ TargetParked
SpecMon == InitMon /\ [][MonNext]_vars

\* the window monitor, with time.sleep(1.0) returning
SpecMonLive == SpecMon /\ WF_vars(MonBackoffEnd)

\* should_click on drawn inputs
InitClick == ClickInit /\ MonInit /\ BotParked /\ ParseParked /\ TitleParked /\ PhysParked /\ TargetParked
NextClick == ApplyShouldClick
SpecClick == InitClick /\ [][NextClick]_vars

\* The control surface over several runs: start(), toggle_pause() and stop()
\* called in any order on a RelaxBot with a chart loaded, or with none, while
\* the target window stays in the foreground.
\* (no chart of RunCharts has a hit circle, so no Timer thread is ever started)
RunCharts == { <<>>, <<Spinner(0, 20), Slider(10, 200)>> }
RunModes  == {"high"}
RunSpan   == 40     \* the wall clock reads MaxTime - RunSpan when the program is up

RunsInit == \E chart \in RunCharts : BotInitAt(chart, MaxTime - RunSpan)

RunsNext ==
    \/ \E mode \in RunModes, offset \in Offsets : StartBegin(mode, offset)
    \/ StartPhysics
    \/ StartThread
    \/ PauseBegin
    \/ PauseRelease
    \/ PauseFlag
    \/ StopBegin
    \/ StopRelease
    \/ StopFlag
    \/ StopEnd
    \/ \E l \in LoopIds : LoopWhile(l)
    \/ \E l \in LoopIds : LoopGate(l, "target", "ok")
    \/ \E l \in LoopIds : LoopObj(l)
    \/ \E l \in LoopIds : LoopPressRet(l)
    \/ \E l \in LoopIds : LoopReleaseRet(l)
    \/ Advance

InitRuns == RunsInit /\ MonInit /\ ClickParked /\ ParseParked /\ TitleParked /\ PhysParked /\ TargetParked
SpecRuns == InitRuns /\ [][RunsNext]_vars

\* One playback run of a chart that takes the loop off its usual path: a slider
\* with no length, to which the parser gives an end_time equal to its time
\* (lines 255-265 with pixel_length 0.0), and a spinner that lasts longer than
\* the 200 ms an object stays in the active set after its time (line 1185).
FaultCharts == { <<Spinner(0, 20), Slider(100, 100)>>, <<Spinner(0, 240)>> }

FaultInit == \E chart \in FaultCharts, mode \in AccuracyModes :
                 Started(chart, mode, 0)

FaultNext ==
    \/ PauseBegin
    \/ PauseRelease
    \/ PauseFlag
    \/ StopBegin
    \/ StopRelease
    \/ StopFlag
    \/ StopEnd
    \/ \E l \in LoopIds : LoopWhile(l)
    \/ \E l \in LoopIds : LoopGate(l, "target", "ok")
    \/ \E l \in LoopIds : LoopObj(l)
    \/ \E l \in LoopIds : LoopPressRet(l)
    \/ \E l \in LoopIds : LoopReleaseRet(l)
    \/ Advance

InitFault == FaultInit /\ MonInit /\ ClickParked /\ ParseParked /\ TitleParked /\ PhysParked /\ TargetParked
SpecFault == InitFault /\ [][FaultNext]_vars

\* Waiting mode: toggle_waiting() and stop() called on a RelaxBot with a chart
\* loaded, the monitor's thread calling on_beatmap_detected, and the playback
\* runs it starts, while the target window stays in the foreground.
ArmCharts == { <<Spinner(0, 20), Slider(10, 200)>> }

ArmInit == \E chart \in ArmCharts : BotInitAt(chart, MaxTime - RunSpan)

ArmNext ==
    \/ ArmBegin
    \/ DetectBegin
    \/ DetectWake
    \/ \E mode \in RunModes, offset \in Offsets : DetectStart(mode, offset)
    \/ DetectStartReturns
    \/ StartPhysics
    \/ StartThread
    \/ StopBegin
    \/ StopRelease
    \/ StopFlag
    \/ StopEnd
    \/ \E l \in LoopIds : LoopWhile(l)
    \/ \E l \in LoopIds : LoopGate(l, "target", "ok")
    \/ \E l \in LoopIds : LoopObj(l)
    \/ \E l \in LoopIds : LoopPressRet(l)
    \/ \E l \in LoopIds : LoopReleaseRet(l)
    \/ Advance

InitArm == ArmInit /\ MonInit /\ ClickParked /\ ParseParked /\ TitleParked /\ PhysParked /\ TargetParked
SpecArm == InitArm /\ [][ArmNext]_vars

\* One playback run of a chart in which a tick releases the key for one
\* object and presses it for the next: at current_time 20 the spinner, nearest,
\* has ended, and the hit circle is inside the hit window of the mode.
KeyCharts == { <<Spinner(0, 20), Circle(70)>> }

KeyInit == \E chart \in KeyCharts, mode \in RunModes : Started(chart, mode, 0)

InitKeys == KeyInit /\ MonInit /\ ClickParked /\ ParseParked /\ TitleParked /\ PhysParked /\ TargetParked
SpecKeys == InitKeys /\ [][BotNext]_vars

\* One playback run of a chart with two objects at the same time
TwinCharts == { <<Circle(60), Spinner(60, 120)>>, <<Spinner(0, 20), Spinner(0, 40)>> }

TwinInit == \E chart \in TwinCharts, mode \in RunModes : Started(chart, mode, 0)

InitTwins == TwinInit /\ MonInit /\ ClickParked /\ ParseParked /\ TitleParked /\ PhysParked /\ TargetParked
SpecTwins == InitTwins /\ [][BotNext]_vars

\* _analyze_window_title on drawn titles
InitTitle == TitleInit /\ MonInit /\ BotParked /\ ClickParked /\ ParseParked /\ PhysParked /\ TargetParked
SpecTitle == InitTitle /\ [][Classify]_vars

\* update_cursor_physics on drawn positions
InitPhys == PhysInit /\ MonInit /\ BotParked /\ ClickParked /\ ParseParked /\ TitleParked /\ TargetParked
SpecPhys == InitPhys /\ [][PhysTick]_vars

\* the ticks of a spinner on drawn positions
SpecSpin == InitPhys /\ [][PhysSpinTick]_vars

\* calculate_target_position on drawn inputs
InitTarget == TargetInit /\ MonInit /\ BotParked /\ ClickParked /\ ParseParked /\ TitleParked /\ PhysParked
SpecTarget == InitTarget /\ [][ApplyTarget]_vars

\* OsuBeatmapParser.parse on drawn files
InitParse == ParseInit /\ MonInit /\ BotParked /\ ClickParked /\ TitleParked /\ PhysParked /\ TargetParked
SpecParse == InitParse /\ [][ParseNext]_vars

----------------------------------------------------------------------------
(* Properties.                                                             *)

\* the hit windows the specification gives: +-30 / +-50 / +-100 ms
SpecWindow(mode) ==
    IF mode = "perfect" THEN 30 ELSE IF mode = "high" THEN 50 ELSE 100

\* C1: N >= 3 consecutive polls whose title classifies as playing, preceded by
\* a non-playing state, invoke the detection callback exactly once (at the poll
\* where the count of consecutive playing observations reaches 3).
C1_DebounceFiresOnce == play_run >= 3 => fired_run = 1

\* C2: the callback is never invoked unless at least 3 consecutive
\* playing-classified observations have occurred since the last non-playing
\* one: whenever the callback has been invoked during the current series of
\* playing observations, that series is at least 3 long.
C2_NoFireBelowThreshold == fired_run > 0 => play_run >= 3

\* two consecutive playing observations have been made and nothing has fired
C2_Witness == play_run = 2 /\ stable_counter = 1 /\ callbacks = 0

\* C3: once stop() has returned and the in-flight tick and every pending
\* delayed-release timer have finished, no key is left down at the target.
C3_NoStuckKeyAfterStop ==
    (stop_obs.ret /\ ctl = "idle" /\ ~Alive) => down = {}

\* C4: if stop() is called while a Hold is active and its key is held, exactly
\* one key release is emitted before stop() returns, and key_pressed is false
\* when it returns.
C4_StopReleasesHoldOnce ==
    (stop_obs.ret /\ stop_obs.pre) => (stop_obs.rels = 1 /\ ~stop_obs.kp)

\* key-down / key-up events triggered in this run by the objects whose time is t
RECURSIVE SumAt(_, _, _)
SumAt(count, t, o) ==
    IF o > Len(hit_objects) THEN 0
    ELSE (IF hit_objects[o].time = t THEN count[o] ELSE 0) + SumAt(count, t, o + 1)

\* C5: while a playback run is on, no object, identified by its time, has
\* triggered more than one key press or more than one key release in it.
C5_IdempotentConsumption ==
    running =>
        \A o \in Objs : /\ SumAt(npress, hit_objects[o].time, 1) <= 1
                        /\ SumAt(nrel, hit_objects[o].time, 1) <= 1

\* C6: a key press for a Tap is emitted only by a tick whose current_time is
\* within the hit window of the active accuracy mode around the Tap's time; in
\* a chart whose only object is a Tap no key goes down in any other step.
C6_TapPressOnlyInWindow ==
    [][ /\ \A o \in Objs :
             (hit_objects[o].type = 1 /\ npress'[o] > npress[o]) =>
                 \E l \in LoopIds :
                    /\ loops[l].pc = "obj"
                    /\ loops[l].act[loops[l].i] = o
                    /\ Abs(hit_objects[o].time - loops[l].ct) <= SpecWindow(accuracy_mode)
        /\ (Len(hit_objects) = 1 /\ hit_objects[1].type = 1) =>
             (down' \subseteq down \/ npress'[1] > npress[1])
      ]_vars

\* the only object is a Tap, perfect mode, and its key press has been emitted
C6_Witness ==
    /\ Len(hit_objects) = 1
    /\ hit_objects[1].type = 1
    /\ accuracy_mode = "perfect"
    /\ npress[1] = 1
    /\ down # {}

\* C7: when a tick handles a Tap that is not yet consumed and whose time is
\* within the active hit window of the tick's current_time, that tick emits a
\* key press for it.
C7_TapInWindowIsPressed ==
    [][ \A l \in LoopIds :
          LET me == loops[l]
              o  == me.act[me.i]
          IN (/\ me.pc = "obj"
              /\ loops'[l] # me
              /\ hit_objects[o].type = 1
              /\ hit_objects[o].time \notin clicked_objects
              /\ Abs(hit_objects[o].time - me.ct) <= SpecWindow(accuracy_mode))
             => npress'[o] = npress[o] + 1
      ]_vars

\* C8: for a Hold that was pressed and made the active hold, once a tick with
\* current_time >= end_time has run, the hold is no longer the active hold.
C8_HoldEndsAtEndTime ==
    \A o \in Objs :
        (hit_objects[o].type = 2 /\ npress[o] >= 1 /\ passed[o]) => active_slider # o

\* C9: for a Spin, once a tick with current_time >= end_time has run, the Spin
\* is marked consumed.
C9_SpinEndsAtEndTime ==
    \A o \in Objs :
        (hit_objects[o].type = 8 /\ passed[o]) => hit_objects[o].time \in clicked_objects

\* C10: should_click under perfect implies should_click under high, which
\* implies should_click under medium.
C10_AccuracyNesting ==
    sc_applied => /\ ("perfect" \in sc_res => "high" \in sc_res)
                  /\ ("high" \in sc_res => "medium" \in sc_res)

\* should_click was evaluated on an object clickable under high but not perfect
C10_Witness == sc_applied /\ sc_res = {"high", "medium"}


----------------------------------------------------------------------------
(* OsuBeatmapParser properties.                                            *)

ParsedIdx == 1..Len(parsed_objects)

\* C11: after a successful parse the timeline is ordered by time
\* non-decreasing, and objects with equal time keep their file order.
C11_SortedStable ==
    parse_pc = "done" =>
        \A i, j \in ParsedIdx :
            i < j => \/ parsed_objects[i].time < parsed_objects[j].time
                     \/ /\ parsed_objects[i].time = parsed_objects[j].time
                        /\ parsed_objects[i].line < parsed_objects[j].line

\* a parse that had to reorder, with two objects of equal time in the result
C11_Witness ==
    /\ parse_pc = "done"
    /\ Len(parsed_objects) = 2
    /\ parsed_objects[1].time = parsed_objects[2].time
    /\ parsed_objects[1].type # parsed_objects[2].type
    /\ content.hits[1][3] = content.hits[2][3]

\* C12: every Hold and every Spin of the parsed timeline ends strictly
\* after it starts.
C12_EndAfterStart ==
    parse_pc = "done" =>
        \A i \in ParsedIdx :
            parsed_objects[i].type \in {2, 8} => parsed_objects[i].dur_n > 0

\* an uninherited TempoPoint not later than t exists
TempoActiveAt(t) ==
    \E k \in 1..Len(timing_points) :
        timing_points[k].uninherited /\ timing_points[k].time <= t

\* the SliderMultiplier of the file in tenths, 1.4 when the key is absent
SpecMultiplier == IF content.sm = 0 THEN 14 ELSE content.sm

\* endTime - time = (length / (100 x sliderMultiplier)) x beatLength x repeat
ByTempo(o, beatLength) ==
    o.dur_n * (100 * SpecMultiplier) = o.dur_d * (o.pixel_length * 10 * beatLength * o.repeat)

\* endTime - time = (length / 100) x 600
ByFallback(o) == o.dur_n * 100 = o.dur_d * (o.pixel_length * 600)

\* C13 as stated: a Hold with an active tempo has the tempo duration, and
\* the fallback is used exactly when no tempo is active at its time.
C13_DurationAsStated ==
    parse_pc = "done" =>
        \A i \in ParsedIdx :
            LET o == parsed_objects[i]
            IN o.type = 2 =>
                 /\ TempoActiveAt(o.time) =>
                        ByTempo(o, timing_points[o.tp].beat_length)
                 /\ (o.via = "fallback") <=> ~TempoActiveAt(o.time)

\* C13 amended: a Hold whose tempo point has a positive beatLength has the
\* tempo duration (500 ms for beatLength 500, multiplier 1.4, repeat 1,
\* length 140); the fallback duration is used exactly when no tempo is active
\* at the Hold's time or the tempo point's beatLength is not positive.
C13_Duration ==
    parse_pc = "done" =>
        \A i \in ParsedIdx :
            LET o == parsed_objects[i]
                positive == o.tp # 0 /\ timing_points[o.tp].beat_length > 0
            IN o.type = 2 =>
                 /\ (o.tp # 0) <=> TempoActiveAt(o.time)
                 /\ positive =>
                        /\ o.via = "tempo"
                        /\ ByTempo(o, timing_points[o.tp].beat_length)
                 /\ ~positive => o.via = "fallback" /\ ByFallback(o)
                 /\ ( /\ positive
                      /\ timing_points[o.tp].beat_length = 500
                      /\ SpecMultiplier = 14
                      /\ o.repeat = 1
                      /\ o.pixel_length = 140 ) => o.dur_n = 500 * o.dur_d

\* a parsed Hold of length 140 under beatLength 500 and the default multiplier
C13_Witness ==
    /\ parse_pc = "done"
    /\ content.sm = 0
    /\ \E i \in ParsedIdx :
          /\ parsed_objects[i].type = 2
          /\ parsed_objects[i].via = "tempo"
          /\ parsed_objects[i].pixel_length = 140
          /\ parsed_objects[i].dur_n = 500 * parsed_objects[i].dur_d

\* C14: the tempo point used for a Hold is an uninherited one with the
\* greatest time not later than the Hold's time, whatever the file order.
C14_LatestTempoByTime ==
    parse_pc = "done" =>
        \A i \in ParsedIdx :
            LET o == parsed_objects[i]
            IN (o.type = 2 /\ TempoActiveAt(o.time)) =>
                 /\ o.tp # 0
                 /\ timing_points[o.tp].uninherited
                 /\ timing_points[o.tp].time <= o.time
                 /\ \A k \in 1..Len(timing_points) :
                       (timing_points[k].uninherited /\ timing_points[k].time <= o.time)
                           => timing_points[k].time <= timing_points[o.tp].time


----------------------------------------------------------------------------
(* Control-surface properties.                                             *)

CtlState == IF ~running THEN "Idle" ELSE IF paused THEN "Paused" ELSE "Running"

CtlMoves == { <<"Idle", "Running">>, <<"Running", "Paused">>,
              <<"Paused", "Running">>, <<"Running", "Idle">>,
              <<"Paused", "Idle">> }

\* C15: the control state only follows Idle -> Running <-> Paused -> Idle;
\* with an empty timeline start() stays Idle and starts no worker; a run
\* begins only from Idle; pause/resume does nothing while Idle; stop() ends
\* in Idle.
C15_ControlStateMachine ==
    [][ /\ CtlState' # CtlState => <<CtlState, CtlState'>> \in CtlMoves
        /\ hit_objects = <<>> =>
              (CtlState' = "Idle" /\ loops' = loops /\ starts' = starts)
        /\ (\E l \in LoopIds : loops[l].pc = "none" /\ loops'[l].pc # "none")
              => (ctl = "start_thread" /\ hit_objects # <<>>)
        /\ starts' # starts => (CtlState = "Idle" /\ CtlState' = "Running")
        /\ (CtlState = "Idle" /\ CtlState' = "Idle") => paused' = paused
        /\ (ctl = "stop_end" /\ ctl' = "idle") => CtlState' = "Idle"
      ]_vars

\* a second run that has been paused, after a stop() that returned
C15_Witness == starts = 2 /\ running /\ paused /\ stop_obs.ret

\* C16: when a successful start() returns, the consumed set is empty, the
\* current channel is Z, the key-held flag is false, there is no active hold
\* and the velocity is zero, whatever the previous run left behind.
C16_StartResets ==
    [][ (ctl = "start_thread" /\ ctl' = "idle") =>
            /\ clicked_objects' = {}
            /\ current_vk' = "z"
            /\ ~key_pressed'
            /\ active_slider' = 0
            /\ velocity' = 0
      ]_vars


\* a step of toggle_pause()
PauseStep ==
    \/ paused' # paused /\ running /\ running'
    \/ ctl \in {"pause_chk", "pause_flag"} /\ ctl' # ctl

\* C17: pause and resume leave the consumed set unchanged.
C17_PauseKeepsConsumed ==
    [][PauseStep => clicked_objects' = clicked_objects]_vars

\* a run paused, its key released by the pause, with objects already consumed
C17_Witness ==
    /\ running
    /\ paused
    /\ ctl = "idle"
    /\ clicked_objects # {}
    /\ ~key_pressed
    /\ \E o \in Objs : npress[o] > 0

\* C19: every key release emitted while a run is on toggles the current
\* channel: the step that completes a release (the key-held flag goes from
\* true to false) also changes the current channel.
C19_ReleaseToggles ==
    [][(running /\ running' /\ key_pressed /\ ~key_pressed')
           => current_vk' # current_vk]_vars

\* C20: a tick that finds the target window not in the foreground does not
\* end the loop, emits no key press and does not drive the pointer.
C20_NoInputInBackground ==
    [][\A l \in LoopIds, window \in FgWindows \ {"target"}, inspector \in Inspectors :
          (LoopGate(l, window, inspector) /\ ~paused) =>
              /\ loops'[l].pc = "while"
              /\ velocity' = velocity
              /\ down' = down
              /\ npress' = npress
      ]_vars

----------------------------------------------------------------------------
(* Title classification properties, stated on the parts of the title.      *)

HasEdit       == t_parts.marker \in {M_edit, M_EDIT} \/ t_parts.body = B_credits
HasSongSelect == t_parts.marker \in {M_select, M_Select}
HasSelect     == HasSongSelect \/ t_parts.marker = M_selection
HasMenu       == t_parts.marker = M_menu
IsBare        == t_parts = [prefix |-> P_osu, marker |-> M_none, body |-> B_none,
                            suffix |-> S_none]
HasBrackets   == t_parts.suffix # S_none

----------------------------------------------------------------------------
\* C21: an exception raised inside one playback tick does not end the loop: no
\* bot_loop thread is ever ended by an exception, so that while the run goes on
\* its thread is still ticking; and a thread that has left the loop by an
\* exception has left no key held.
C21_TickFaultNotFatal ==
    \A l \in LoopIds :
        /\ loops[l].pc # "raised"
        /\ (loops[l].pc = "raised" /\ ctl = "idle") => (~key_pressed /\ down = {})

----------------------------------------------------------------------------
\* C22: during a run the playback state (the consumed set, the key-held flag,
\* the current channel, the active hold) is written only by the playback loop
\* worker: every step that changes it while the run is on is a step of a
\* bot_loop thread, never of a delayed-release Timer or of pause or stop.
PlaybackState == <<clicked_objects, key_pressed, current_vk, active_slider>>

C22_LoopOwnsPlaybackState ==
    [][(running /\ PlaybackState' # PlaybackState) => loops' # loops]_vars

----------------------------------------------------------------------------
\* C23: an inspection error during a poll is never fatal to the monitor: while
\* the monitor is running its polling loop has not ended, and a loop that is in
\* the backoff pause after an error always comes back to the top of the loop,
\* where it polls again if the monitor is still running.
C23_PollErrorNotFatal ==
    /\ [](mon_running => mon_pc \in {"poll", "backoff"})
    /\ ((mon_pc = "backoff") ~> (mon_pc = "poll"))

\* a poll has raised, the backoff pause is over and the loop is about to poll
C23_Witness == mon_running /\ last_poll = "error" /\ mon_pc = "poll"

----------------------------------------------------------------------------
\* C24: the stability counter is zero in every state that directly follows an
\* observation classified as non-playing, and in every state that directly
\* follows a poll in which the callback was invoked.
C24_CounterReset ==
    last_poll \in {"nonplaying", "fired"} => stable_counter = 0

\* a playing title has been counted and the non-playing title observed next has
\* put the counter back to zero
C24_Witness ==
    /\ last_poll = "nonplaying"
    /\ polls >= 2
    /\ last_state \in {"selecting", "menu"}
    /\ stable_counter = 0

----------------------------------------------------------------------------
\* C25: started at rest farther than the arrival threshold from a stationary
\* target on the screen, the pointer is within the arrival threshold of the
\* target after at most SettleTicks calls of update_cursor_physics, and once a
\* call has left it within the threshold it is within the threshold after every
\* later call.
SettleTicks == 110

Within == Abs(ph_target - ph_pos) < arrival_threshold * Px

C25_MotionConverges ==
    /\ ph_n >= SettleTicks => Within
    /\ ph_arrived => Within

\* the pointer has crossed the screen and has then been left in place by
\* further calls
C25_Witness ==
    /\ ph_n > SettleTicks
    /\ ph_target = SCREEN_WIDTH * Px
    /\ Within
    /\ ph_pos > (SCREEN_WIDTH - arrival_threshold) * Px
    /\ ph_pos < ph_target

----------------------------------------------------------------------------
\* C26: once stop() has returned, the bot_loop thread of the run it stopped
\* begins no further tick: whatever it was doing it finishes, and at its next
\* test of the loop condition it leaves the loop.
StoppedRun(l) ==
    /\ loops[l].pc # "none"
    /\ \/ l < starts
       \/ l = starts /\ ~running /\ ctl = "idle"

C26_NoTickAfterStop ==
    [][\A l \in LoopIds :
          (StoppedRun(l) /\ loops[l].pc = "while") => loops'[l].pc # "gate"]_vars

----------------------------------------------------------------------------
\* C27: in every executed tick the pointer is advanced after the objects have
\* been handled: in a tick in which a Spin is in progress the target handed to
\* update_cursor_physics is the rotating target, and in a tick in which a Hold
\* is active it is the Hold's interpolated position.
SpinInProgress(ct) ==
    \E o \in Objs : /\ hit_objects[o].type = 8
                    /\ hit_objects[o].time \notin clicked_objects
                    /\ hit_objects[o].time <= ct
                    /\ ct < hit_objects[o].end_time

HoldActive(ct) ==
    /\ active_slider # 0
    /\ ct < hit_objects[active_slider].end_time

C27_AdvanceAfterTriggers ==
    [][\A l \in LoopIds, window \in FgWindows, inspector \in Inspectors :
          (LoopGate(l, window, inspector) /\ ~paused
             /\ is_osu_window_active(window, inspector)) =>
              LET ct == now - start_time IN
              /\ SpinInProgress(ct) => target_position' = AtSpin
              /\ HoldActive(ct) => target_position' = AtSlider(active_slider)
      ]_vars

----------------------------------------------------------------------------
\* C28: at the end of every executed tick of the run (running, not paused, the
\* window in the foreground, no pause or stop call begun while it ran) whose
\* current_time lies in [time, end_time) of a Spin, the key is held: the flag
\* key_pressed is set and the key is down at the target.
TickEnds(l) ==
    /\ loops[l].pc \in {"gate", "obj", "press_ret", "release_ret"}
    /\ loops'[l].pc = "while"
    /\ loops'[l].wake = now + frame_time

TickTime(l) == IF loops[l].pc = "gate" THEN now - start_time ELSE loops[l].ct

InSpin(ct) ==
    \E o \in Objs : /\ hit_objects[o].type = 8
                    /\ hit_objects[o].time <= ct
                    /\ ct < hit_objects[o].end_time

C28_SpinHeldAtTickEnd ==
    [][\A l \in LoopIds :
          (TickEnds(l) /\ running' /\ ~paused' /\ ~disturbed' /\ InSpin(TickTime(l)))
          => (key_pressed' /\ current_vk' \in down')
      ]_vars

----------------------------------------------------------------------------
\* C29: calculate_target_position returns exactly the scaled literal position
\* of the object when time - current_time <= 50 ms; between 50 and 150 ms it
\* adds the idle offset scaled linearly by (remaining - 50) / 100, in whole
\* pixels; above 150 ms it adds the full offset.  So at trigger time (the
\* object inside the hit window of some accuracy mode) the target is the
\* scaled literal position.
Remaining == tg_obj.time - tg_now

\* v is the whole-pixel part of num / den (den > 0), rounded towards zero
WholePart(v, num, den) ==
    IF num >= 0 THEN v * den <= num /\ num < (v + 1) * den
    ELSE v * den >= num /\ num > (v - 1) * den

\* the literal position scaled from the 512 x 384 chart to the 1920 x 1080 screen
ScaledLiteralX(v) == WholePart(v, tg_obj.x * 1920, 512)
ScaledLiteralY(v) == WholePart(v, tg_obj.y * 1080, 384)

ScaledLiteral(res) == ScaledLiteralX(res[1]) /\ ScaledLiteralY(res[2])

C29_IdleDecoration ==
    tg_res # <<>> =>
        LET added == <<tg_res[1] - tg_off[1], tg_res[2] - tg_off[2]>>
        IN
        /\ Remaining <= 50 => ScaledLiteral(tg_res)
        /\ (\E mode \in AccuracyModes : Abs(Remaining) <= SpecWindow(mode))
              => ScaledLiteral(tg_res)
        /\ Remaining > 150 => ScaledLiteral(added)
        /\ (Remaining > 50 /\ Remaining <= 150) =>
              /\ \E bx \in 0..1920 :
                    /\ ScaledLiteralX(bx)
                    /\ WholePart(tg_res[1] - bx, tg_off[1] * (Remaining - 50), 100)
              /\ \E by \in 0..1080 :
                    /\ ScaledLiteralY(by)
                    /\ WholePart(tg_res[2] - by, tg_off[2] * (Remaining - 50), 100)

\* 149 ms before the object a two-pixel offset has been cut to one pixel
C29_Witness ==
    /\ tg_res # <<>>
    /\ Remaining = 149
    /\ tg_off = <<2, 0 - 2>>
    /\ tg_obj.x = 257
    /\ tg_res = <<964, 536>>

----------------------------------------------------------------------------
\* C30: in a tick of a Spin the velocity is damped less than in a normal tick:
\* the product of all the factors the velocity is multiplied by in a spinner's
\* tick is greater than the friction factor 0.85 of a normal tick.
C30_SpinFrictionRelaxed ==
    ph_last.spin => ph_last.fac > auto_friction * 100

----------------------------------------------------------------------------
\* the fields of a [TimingPoints] line that lines 213-222 convert
TimingLineFails(parts) ==
    /\ Len(parts) >= 2
    /\ \E i \in 1..Len(parts) : i <= 8 /\ ~IsNum(parts[i])

\* the fields of a [HitObjects] line that lines 241-275 convert: the first
\* five, then those of the branch the type selects
HitLineFails(parts) ==
    /\ Len(parts) >= 4
    /\ \/ \E i \in 1..Len(parts) : i <= 5 /\ ~IsNum(parts[i])
       \/ /\ \A i \in 1..Len(parts) : i <= 5 => IsNum(parts[i])
          /\ Len(parts) > 5
          /\ ~Bit(parts[4], 1)
          /\ IF Bit(parts[4], 2)
             THEN \/ parts[6] = TokBad
                  \/ Len(parts) > 6 /\ ~IsNum(parts[7])
                  \/ Len(parts) > 7 /\ ~IsNum(parts[8])
             ELSE Bit(parts[4], 8) /\ ~IsNum(parts[6])

\* the timeline without the line numbers of the file
Timeline(objs) ==
    [i \in 1..Len(objs) |->
        [type |-> objs[i].type, time |-> objs[i].time, via |-> objs[i].via,
         tp |-> objs[i].tp, repeat |-> objs[i].repeat,
         pixel_length |-> objs[i].pixel_length,
         dur_n |-> objs[i].dur_n, dur_d |-> objs[i].dur_d]]

\* parse() on a whole file (lines 163-167)
ParseAll(c) ==
    SortByTime(parse_hit_objects(c.hits, 1, parse_timing_points(c.timing, 1), c.sm))

\* C31: a [TimingPoints] or [HitObjects] line that fails numeric conversion is
\* dropped and parsing goes on: the parse completes, and the timeline is the
\* one obtained from the same file with that line removed.
C31_BadLineDropped ==
    parse_pc = "done" =>
        /\ \A k \in 1..Len(content.timing) :
              TimingLineFails(content.timing[k]) =>
                  Timeline(parsed_objects) =
                      Timeline(ParseAll([content EXCEPT !.timing = Remove(content.timing, k)]))
        /\ \A k \in 1..Len(content.hits) :
              HitLineFails(content.hits[k]) =>
                  Timeline(parsed_objects) =
                      Timeline(ParseAll([content EXCEPT !.hits = Remove(content.hits, k)]))

\* a file with a bad timing line and a bad hit line before a slider that the
\* parse kept
C31_Witness ==
    /\ parse_pc = "done"
    /\ \E k \in 1..Len(content.timing) : TimingLineFails(content.timing[k])
    /\ Len(content.hits) = 2
    /\ HitLineFails(content.hits[1])
    /\ Len(parsed_objects) = 1
    /\ parsed_objects[1].type = 2
    /\ parsed_objects[1].line = 2

----------------------------------------------------------------------------
\* bit b (a power of two) of the mask n is set
Flag(n, b) == n % (2 * b) >= b

\* the timeline objects that came from line k of the [HitObjects] section
FromLine(k) == {i \in ParsedIdx : parsed_objects[i].line = k}

\* C32: each [HitObjects] line yields at most one object of the timeline; the
\* object is a Tap (type 1), a Hold (type 2) or a Spin (type 8) and the bit of
\* its kind (bit 0, bit 1, bit 3) is set in field 4 of its line; a line with
\* none of these bits yields no object.
C32_KindByBitmask ==
    parse_pc = "done" =>
        /\ \A i \in ParsedIdx :
              /\ parsed_objects[i].line \in 1..Len(content.hits)
              /\ parsed_objects[i].type \in {1, 2, 8}
              /\ Flag(content.hits[parsed_objects[i].line][4], parsed_objects[i].type)
        /\ \A k \in 1..Len(content.hits) :
              /\ Cardinality(FromLine(k)) <= 1
              /\ (/\ IsNum(content.hits[k][4])
                  /\ ~Flag(content.hits[k][4], 1)
                  /\ ~Flag(content.hits[k][4], 2)
                  /\ ~Flag(content.hits[k][4], 8)) => FromLine(k) = {}

\* a line with none of the three bits before a spinner whose mask also has
\* the new-combo bit: the timeline is the one Spin
C32_Witness ==
    /\ parse_pc = "done"
    /\ Len(content.hits) = 2
    /\ content.hits[1][4] = 128
    /\ content.hits[2][4] = 12
    /\ Len(parsed_objects) = 1
    /\ parsed_objects[1].type = 8
    /\ parsed_objects[1].line = 2

----------------------------------------------------------------------------
----------------------------------------------------------------------------
\* C34: when on_beatmap_detected has been invoked in waiting mode and stop()
\* is called before it has finished, playback does not become Running: once
\* that stop() has returned, running stays False until the next arm request.
C34_StopCancelsDetection ==
    (stop_obs.det /\ stop_obs.ret) => ~running

----------------------------------------------------------------------------
\* no thread is between a SendInput call and the assignment to key_pressed
\* that follows it
BetweenCalls ==
    /\ ctl = "idle"
    /\ \A l \in LoopIds : loops[l].pc \notin {"press_ret", "release_ret"}
    /\ \A n \in 1..Len(timers) : timers[n].pc # "ret"

\* C35: under every interleaving of the loop's press_key with the Timer's
\* release_key and the releases of pause and stop, every release goes to the
\* channel of the press it ends: when no helper is in the middle of its call,
\* key_pressed false means no channel is down and key_pressed true means
\* exactly the channel current_vk is down.
C35_ReleaseMatchesPress ==
    BetweenCalls => (down = IF key_pressed THEN {current_vk} ELSE {})

----------------------------------------------------------------------------
\* thread l is inside a tick that it began in run r
InTickOf(l, r) ==
    /\ loops[l].pc \in {"obj", "press_ret", "release_ret"}
    /\ loops[l].run = r

\* C36: at most one bot_loop thread is ticking: after a stop() followed by a
\* start(), the thread of an earlier run never executes a tick begun in the
\* new run while the new run's own thread is alive.
C36_SingleLoopWorker ==
    \A l \in LoopIds :
        (l < starts /\ loops[starts].pc \notin {"none", "done", "raised"})
            => ~InTickOf(l, starts)

----------------------------------------------------------------------------
\* object o is within the range the loop looks at (200 ms back, 800 ms ahead)
Visible(o, ct) ==
    /\ hit_objects[o].time - ct >= 0 - 200
    /\ hit_objects[o].time - ct <= 800

\* no tick of the run up to current_time ct can have consumed o for itself:
\* a Spin is consumed by a tick at or after its end, a Tap or a Hold by a tick
\* inside its hit window
OwnTriggerPending(o, ct) ==
    IF hit_objects[o].type = 8
    THEN ct < hit_objects[o].end_time
    ELSE \A c \in 0..ct : ~should_click(accuracy_mode, hit_objects[o].time, c)

\* C37: consuming one object never suppresses the trigger of another one: in
\* every executed tick, each object in range that has not had its own turn
\* yet is a member of the tick's active set and so gets its trigger
\* evaluation, also when another object of the same time has been consumed.
C37_ConsumptionPerObject ==
    [][\A l \in LoopIds, window \in FgWindows, inspector \in Inspectors :
          (LoopGate(l, window, inspector) /\ ~paused
             /\ is_osu_window_active(window, inspector)) =>
              LET ct  == now - start_time
                  act == IF loops'[l].pc = "obj" THEN loops'[l].act ELSE <<>>
              IN \A o \in Objs :
                    (Visible(o, ct) /\ OwnTriggerPending(o, ct)) =>
                        \E i \in 1..Len(act) : act[i] = o
      ]_vars

====
